---- MODULE Spec2Model ----
(***************************************************************************)
(* Model of src/Array_Instrumentation/arrayinstrumentation.cc: the         *)
(* interval lattice (class range), the array abstract store (arr_state),   *)
(* the block abstract state (block_state), the value evaluator, the        *)
(* branch refiner, the worklist fixpoint of run_pass and its               *)
(* instrumentation phase (needs_check / add_check).                        *)
(*                                                                         *)
(* The integer width is scaled down: the source's int is 32 bits wide and  *)
(* its intermediate results are int64_t; here INT_MAX is a small bound and *)
(* intermediate results are unbounded integers, so that, as in the source, *)
(* no intermediate result wraps before clamp_i32 saturates it.             *)
(***************************************************************************)
EXTENDS Integers, Sequences, FiniteSets, TLC

\* ------------------------------------------------------------------ bounds

\* Largest value of the (scaled-down) signed machine integer.
INT_MAX == 7

INT_MIN == -INT_MAX - 1

Ints == INT_MIN..INT_MAX

\* ---------------------------------------------------- class range (19-118)

range(safe, off) == [safelane |-> safe, offlane |-> off]

r_top == range(INT_MIN, INT_MAX)

r_bot == range(INT_MAX, INT_MIN)

get_low(r) == r.safelane

get_high(r) == r.offlane

\* Every value a range object can hold under the data model: Bottom, or a
\* non-empty closed interval of the machine integers.
Ranges == {r_bot} \cup {r \in {range(l, h) : l \in Ints, h \in Ints} : r.safelane <= r.offlane}

Min2(x, y) == IF x <= y THEN x ELSE y

Max2(x, y) == IF x >= y THEN x ELSE y

Min4(a, b, c, d) == Min2(Min2(a, b), Min2(c, d))

Max4(a, b, c, d) == Max2(Max2(a, b), Max2(c, d))

clamp_i32(val) == IF val > INT_MAX THEN INT_MAX ELSE IF val < INT_MIN THEN INT_MIN ELSE val

\* An unsound variant of add (upper bound from r2's lower bound), against
\* which the sensitivity of C9 is measured.
add_wrong_hi(r1, r2) ==
    IF r1 = r_bot \/ r2 = r_bot THEN r_bot
    ELSE range(clamp_i32(r1.safelane + r2.safelane), clamp_i32(r1.offlane + r2.safelane))

add(r1, r2) ==
    IF r1 = r_bot \/ r2 = r_bot THEN r_bot
    ELSE range(clamp_i32(r1.safelane + r2.safelane), clamp_i32(r1.offlane + r2.offlane))

sub(r1, r2) ==
    IF r1 = r_bot \/ r2 = r_bot THEN r_bot
    ELSE range(clamp_i32(r1.safelane - r2.offlane), clamp_i32(r1.offlane - r2.safelane))

mul(r1, r2) ==
    IF r1 = r_bot \/ r2 = r_bot THEN r_bot
    ELSE LET t1 == clamp_i32(r1.safelane * r2.safelane)
             t2 == clamp_i32(r1.safelane * r2.offlane)
             t3 == clamp_i32(r1.offlane * r2.safelane)
             t4 == clamp_i32(r1.offlane * r2.offlane)
         IN range(Min4(t1, t2, t3, t4), Max4(t1, t2, t3, t4))

\* A variant of join that keeps r1's lower bound, against which the
\* sensitivity of C10 is measured.
join_first(r1, r2) ==
    IF r1 = r_bot THEN r2
    ELSE IF r2 = r_bot THEN r1
    ELSE range(r1.safelane, Max2(r1.offlane, r2.offlane))

join(r1, r2) ==
    IF r1 = r_bot THEN r2
    ELSE IF r2 = r_bot THEN r1
    ELSE range(Min2(r1.safelane, r2.safelane), Max2(r1.offlane, r2.offlane))

\* A variant of intersect that does not test for an empty result, against
\* which the sensitivity of C22 is measured.
intersect_unchecked(r1, r2) ==
    IF r1 = r_bot \/ r2 = r_bot THEN r_bot
    ELSE range(Max2(r1.safelane, r2.safelane), Min2(r1.offlane, r2.offlane))

intersect(r1, r2) ==
    IF r1 = r_bot \/ r2 = r_bot THEN r_bot
    ELSE LET new_safe == Max2(r1.safelane, r2.safelane)
             new_off == Min2(r1.offlane, r2.offlane)
         IN IF new_safe > new_off THEN r_bot ELSE range(new_safe, new_off)

\* ------------------------------------------------- IR values (the substrate)

\* A Value*: a ConstantInt (n its value), a ConstantExpr, an Argument (n its
\* number) or the result of instruction n of the function.
Val(k, n) == [k |-> k, n |-> n]

CInt(c) == Val("cint", c)

CExpr == Val("cexpr", 0)

Arg(i) == Val("arg", i)

PtrArg(i) == Val("parg", i)

Reg(i) == Val("inst", i)

NoVal == Val("none", 0)

\* An instruction: op is its kind; a, b, c its operands; n the array length
\* (alloca_arr) or the number of indices (gep); pred the icmp predicate;
\* targets the successor blocks of a terminator; inc the (value, block)
\* pairs of a phi; args the arguments of a call (c its callee, NoVal for an
\* indirect call).
Ins(op, a, b) == [op |-> op, a |-> a, b |-> b, c |-> NoVal, n |-> 0, pred |-> "", targets |-> <<>>, inc |-> <<>>, args |-> <<>>]

BinOps == {"add", "sub", "mul", "sdiv", "and"}

IsConstantInt(v) == v.k = "cint"

IsConstantExpr(v) == v.k = "cexpr"

IsArgument(v) == v.k \in {"arg", "parg"}

IsOp(I, v, ops) == v.k = "inst" /\ v.n \in DOMAIN I /\ I[v.n].op \in ops

IsBinaryOperator(I, v) == IsOp(I, v, BinOps)

IsLoadInst(I, v) == IsOp(I, v, {"load"})

IsGEP(I, v) == IsOp(I, v, {"gep"})

get_base_ptr(I, ptr) == IF IsGEP(I, ptr) THEN I[ptr.n].a ELSE ptr

\* ------------------------------------------------ std::map as a function

EmptyMap == [x \in {} |-> r_bot]

Has(m, k) == k \in DOMAIN m

Put(m, k, v) == [x \in DOMAIN m \cup {k} |-> IF x = k THEN v ELSE m[x]]

\* ----------------------------------- arr_state and block_state (126-149)

arr_state(d, em) == [default_r |-> d, elem_map |-> em]

NewArr == arr_state(range(0, 0), EmptyMap)

block_state(re, vr, as) == [reachable |-> re, val_ranges |-> vr, arr_states |-> as]

NewState == block_state(FALSE, EmptyMap, EmptyMap)

\* std::map<BasicBlock*, block_state>::operator[]: a block with no entry
\* reads as a default-constructed (unreachable, empty) state.
StateAt(m, b) == IF b \in DOMAIN m THEN m[b] ELSE NewState

IsSingleton(r) == get_low(r) = get_high(r) /\ r # r_bot

RECURSIVE get_range(_, _, _)

RECURSIVE load_elem(_, _, _, _)

\* The index operand of a gep with at least two indices (idx_begin + 1).
GepIdx(I, gep) == I[gep.n].b

\* arr_state::load_elem (253-275)
load_elem(I, arr, idx, state) ==
    IF IsConstantInt(idx) THEN
        IF Has(arr.elem_map, idx.n) THEN arr.elem_map[idx.n] ELSE arr.default_r
    ELSE IF IsConstantExpr(idx) THEN arr.default_r
    ELSE IF IsBinaryOperator(I, idx) THEN
        LET idx_r == get_range(I, idx, state)
        IN IF IsSingleton(idx_r) /\ Has(arr.elem_map, get_low(idx_r))
           THEN arr.elem_map[get_low(idx_r)] ELSE arr.default_r
    ELSE IF Has(state.val_ranges, idx) THEN
        LET idx_r == state.val_ranges[idx]
        IN IF IsSingleton(idx_r) /\ Has(arr.elem_map, get_low(idx_r))
           THEN arr.elem_map[get_low(idx_r)] ELSE arr.default_r
    ELSE arr.default_r

\* get_range (305-358)
get_range(I, val, state) ==
    IF ~state.reachable THEN r_bot
    ELSE IF IsConstantInt(val) THEN range(val.n, val.n)
    ELSE IF IsConstantExpr(val) THEN r_top
    ELSE IF IsBinaryOperator(I, val) THEN
        IF Has(state.val_ranges, val) THEN state.val_ranges[val]
        ELSE LET r1 == get_range(I, I[val.n].a, state)
                 r2 == get_range(I, I[val.n].b, state)
             IN CASE I[val.n].op = "add" -> add(r1, r2)
                  [] I[val.n].op = "sub" -> sub(r1, r2)
                  [] I[val.n].op = "mul" -> mul(r1, r2)
                  [] OTHER -> r_top
    ELSE LET ptr == IF IsLoadInst(I, val) THEN I[val.n].a ELSE NoVal
             base == get_base_ptr(I, ptr)
         IN IF IsLoadInst(I, val) /\ ptr # base /\ Has(state.arr_states, base) /\ I[ptr.n].n >= 2
            THEN load_elem(I, state.arr_states[base], GepIdx(I, ptr), state)
            ELSE IF IsLoadInst(I, val) /\ Has(state.val_ranges, base) THEN state.val_ranges[base]
            ELSE IF Has(state.val_ranges, val) THEN state.val_ranges[val]
            ELSE r_top

\* A variant of StoreSlot that also joins val into default_r, against which
\* the sensitivity of C8 is measured.
StoreSlotWidening(arr, i, val) == arr_state(join(arr.default_r, val), Put(arr.elem_map, i, val))

\* The two outcomes of store_elem: the slot of an exactly known index is
\* rebound; any other write joins into default_r and clears elem_map.

StoreSlot(arr, i, val) == arr_state(arr.default_r, Put(arr.elem_map, i, val))

StoreSummary(arr, val) == arr_state(join(arr.default_r, val), EmptyMap)

\* Whether store_elem takes the exactly-known-index branch for idx, and the
\* slot it then writes.
StoreIsExact(I, idx, state) ==
    IF IsConstantInt(idx) THEN TRUE
    ELSE IF IsConstantExpr(idx) THEN FALSE
    ELSE IF IsBinaryOperator(I, idx) THEN IsSingleton(get_range(I, idx, state))
    ELSE IF Has(state.val_ranges, idx) THEN IsSingleton(state.val_ranges[idx])
    ELSE FALSE

StoreSlotOf(I, idx, state) ==
    IF IsConstantInt(idx) THEN idx.n
    ELSE IF IsBinaryOperator(I, idx) THEN get_low(get_range(I, idx, state))
    ELSE get_low(state.val_ranges[idx])

\* arr_state::store_elem (224-251)
store_elem(I, arr, idx, val, state) ==
    IF StoreIsExact(I, idx, state)
    THEN StoreSlot(arr, StoreSlotOf(I, idx, state), val)
    ELSE StoreSummary(arr, val)

\* A variant of join_arr that joins a slot tracked on one side only with
\* its own side's default, against which the sensitivity of C24 is measured.
join_arr_own_default(s1, s2) ==
    arr_state(join(s1.default_r, s2.default_r),
              [idx \in DOMAIN s1.elem_map \cup DOMAIN s2.elem_map |->
                  IF Has(s1.elem_map, idx)
                  THEN IF Has(s2.elem_map, idx)
                       THEN join(s1.elem_map[idx], s2.elem_map[idx])
                       ELSE join(s1.elem_map[idx], s1.default_r)
                  ELSE join(s2.default_r, s2.elem_map[idx])])

\* arr_state::join_arr (277-296)
join_arr(s1, s2) ==
    arr_state(join(s1.default_r, s2.default_r),
              [idx \in DOMAIN s1.elem_map \cup DOMAIN s2.elem_map |->
                  IF Has(s1.elem_map, idx)
                  THEN IF Has(s2.elem_map, idx)
                       THEN join(s1.elem_map[idx], s2.elem_map[idx])
                       ELSE join(s1.elem_map[idx], s2.default_r)
                  ELSE join(s1.default_r, s2.elem_map[idx])])

\* block_state::join_state (151-195): the state *this holds afterwards.
join_state(this, other) ==
    IF ~other.reachable THEN this
    ELSE IF ~this.reachable THEN block_state(TRUE, other.val_ranges, other.arr_states)
    ELSE LET live == {v \in DOMAIN other.val_ranges : other.val_ranges[v] # r_bot}
             vr == [v \in DOMAIN this.val_ranges \cup live |->
                       IF v \in live
                       THEN join(IF Has(this.val_ranges, v) THEN this.val_ranges[v] ELSE r_bot,
                                 other.val_ranges[v])
                       ELSE this.val_ranges[v]]
             as == [al \in DOMAIN this.arr_states \cup DOMAIN other.arr_states |->
                       IF Has(other.arr_states, al)
                       THEN IF Has(this.arr_states, al)
                            THEN join_arr(this.arr_states[al], other.arr_states[al])
                            ELSE other.arr_states[al]
                       ELSE this.arr_states[al]]
         IN block_state(TRUE, vr, as)

\* block_state::join_state (151-195): the value it returns.
join_state_changed(this, other) ==
    IF ~other.reachable THEN FALSE
    ELSE IF ~this.reachable THEN TRUE
    ELSE \/ \E val \in DOMAIN other.val_ranges :
              /\ other.val_ranges[val] # r_bot
              /\ \/ ~Has(this.val_ranges, val)
                 \/ this.val_ranges[val] # join(this.val_ranges[val], other.val_ranges[val])
         \/ \E alloc \in DOMAIN other.arr_states :
              \/ ~Has(this.arr_states, alloc)
              \/ this.arr_states[alloc].default_r
                     # join_arr(this.arr_states[alloc], other.arr_states[alloc]).default_r
              \/ this.arr_states[alloc].elem_map
                     # join_arr(this.arr_states[alloc], other.arr_states[alloc]).elem_map

\* block_state::operator!= (198-222)
Neq(this, other) ==
    IF this.reachable # other.reachable THEN TRUE
    ELSE IF ~this.reachable /\ ~other.reachable THEN FALSE
    ELSE IF Cardinality(DOMAIN this.val_ranges) # Cardinality(DOMAIN other.val_ranges) THEN TRUE
    ELSE IF Cardinality(DOMAIN this.arr_states) # Cardinality(DOMAIN other.arr_states) THEN TRUE
    ELSE \/ \E val \in DOMAIN this.val_ranges :
                ~Has(other.val_ranges, val) \/ other.val_ranges[val] # this.val_ranges[val]
         \/ \E alloc \in DOMAIN this.arr_states :
                \/ ~Has(other.arr_states, alloc)
                \/ other.arr_states[alloc].default_r # this.arr_states[alloc].default_r
                \/ Cardinality(DOMAIN other.arr_states[alloc].elem_map)
                       # Cardinality(DOMAIN this.arr_states[alloc].elem_map)

\* ------------------------------------------------------ the CFG substrate

\* A function: insts maps an instruction number to the instruction, blocks
\* is the list of basic blocks in function order (the entry block first),
\* each the list of its instruction numbers, the terminator last.
Terminator(Fn, b) == Fn.insts[Fn.blocks[b][Len(Fn.blocks[b])]]

BlockIds(Fn) == 1..Len(Fn.blocks)

successors(Fn, b) == Terminator(Fn, b).targets

SuccSet(Fn, b) == {successors(Fn, b)[i] : i \in 1..Len(successors(Fn, b))}

RECURSIVE PredsFrom(_, _, _)

PredsFrom(Fn, b, p) ==
    IF p > Len(Fn.blocks) THEN <<>>
    ELSE (IF b \in SuccSet(Fn, p) THEN <<p>> ELSE <<>>) \o PredsFrom(Fn, b, p + 1)

\* predecessors(BB), in function order.
predecessors(Fn, b) == PredsFrom(Fn, b, 1)

RECURSIVE ReachAvoiding(_, _, _)

\* The blocks reachable from the blocks of seen without entering avoid.
ReachAvoiding(Fn, seen, avoid) ==
    LET more == UNION {SuccSet(Fn, b) : b \in seen} \ (seen \cup {avoid})
    IN IF more = {} THEN seen ELSE ReachAvoiding(Fn, seen \cup more, avoid)

\* FindFunctionBackedges (745-751): on the reducible CFGs modelled here its
\* depth-first search returns the edges whose target dominates their source.
FindFunctionBackedges(Fn) ==
    {e \in {<<u, v>> : u \in BlockIds(Fn), v \in BlockIds(Fn)} :
        /\ e[2] \in SuccSet(Fn, e[1])
        /\ e[1] \in ReachAvoiding(Fn, {1}, 0)
        /\ (e[2] = 1 \/ e[1] = e[2] \/ e[1] \notin ReachAvoiding(Fn, {1}, e[2]))}

\* ----------------------------------------------- get_pred_range (360-412)

RECURSIVE get_pred_range(_, _, _)

\* get_pred_range(val, pred_bb, out_states), st being out_states[pred_bb].
get_pred_range(I, val, st) ==
    IF ~st.reachable THEN r_bot
    ELSE IF IsConstantInt(val) THEN range(val.n, val.n)
    ELSE IF IsConstantExpr(val) THEN r_top
    ELSE IF IsBinaryOperator(I, val) THEN
        IF Has(st.val_ranges, val) THEN st.val_ranges[val]
        ELSE LET r1 == get_pred_range(I, I[val.n].a, st)
                 r2 == get_pred_range(I, I[val.n].b, st)
             IN CASE I[val.n].op = "add" -> add(r1, r2)
                  [] I[val.n].op = "sub" -> sub(r1, r2)
                  [] I[val.n].op = "mul" -> mul(r1, r2)
                  [] OTHER -> r_top
    ELSE IF Has(st.val_ranges, val) THEN st.val_ranges[val]
    ELSE LET ptr == IF IsLoadInst(I, val) THEN I[val.n].a ELSE NoVal
             base == get_base_ptr(I, ptr)
         IN IF IsLoadInst(I, val) /\ ptr # base /\ Has(st.arr_states, base) /\ I[ptr.n].n >= 2
            THEN load_elem(I, st.arr_states[base], GepIdx(I, ptr), st)
            ELSE IF IsLoadInst(I, val) /\ Has(st.val_ranges, base) THEN st.val_ranges[base]
            ELSE r_top

\* ------------------------------------------------ transfer_inst (414-524)

SetVal(state, v, r) == [state EXCEPT !.val_ranges = Put(@, v, r)]

SetArr(state, v, arr) == [state EXCEPT !.arr_states = Put(@, v, arr)]

TopArr == arr_state(r_top, EmptyMap)

RECURSIVE PhiMerge(_, _, _, _, _)

\* The loop over the incoming values of a phi (417-425).
PhiMerge(I, inc, i, outs, merged) ==
    IF i > Len(inc) THEN merged
    ELSE PhiMerge(I, inc, i + 1, outs,
                  IF StateAt(outs, inc[i][2]).reachable
                  THEN join(merged, get_pred_range(I, inc[i][1], StateAt(outs, inc[i][2])))
                  ELSE merged)

\* A pointer-typed value: the result of an alloca or of a gep, or an
\* argument declared as a pointer.
IsPointerTy(I, v) ==
    \/ IsOp(I, v, {"alloca", "alloca_arr", "gep"})
    \/ v.k = "parg"

RECURSIVE Clobber(_, _, _, _)

\* The loop over the arguments of a direct call (481-492).
Clobber(I, args, i, state) ==
    IF i > Len(args) THEN state
    ELSE LET base == get_base_ptr(I, args[i])
             st == IF ~IsPointerTy(I, args[i]) THEN state
                   ELSE IF Has(state.arr_states, base) THEN SetArr(state, base, TopArr)
                   ELSE SetVal(state, base, r_top)
         IN Clobber(I, args, i + 1, st)

transfer_inst(I, id, state, outs) ==
    LET ins == I[id]
        me == Reg(id)
    IN CASE ins.op = "phi" -> SetVal(state, me, PhiMerge(I, ins.inc, 1, outs, r_bot))
         [] ins.op = "alloca_arr" -> SetArr(state, me, NewArr)
         [] ins.op = "alloca" -> SetVal(state, me, r_top)
         [] ins.op = "load" ->
              LET ptr == ins.a
                  base == get_base_ptr(I, ptr)
              IN IF ptr # base /\ Has(state.arr_states, base)
                 THEN IF I[ptr.n].n >= 2
                      THEN SetVal(state, me, load_elem(I, state.arr_states[base], GepIdx(I, ptr), state))
                      ELSE state
                 ELSE SetVal(state, me, get_range(I, base, state))
         [] ins.op = "store" ->
              LET ptr_op == ins.b
                  base == get_base_ptr(I, ptr_op)
                  val_r == get_range(I, ins.a, state)
              IN IF ptr_op # base /\ Has(state.arr_states, base) /\ I[ptr_op.n].n >= 2
                 THEN SetArr(state, base, store_elem(I, state.arr_states[base], GepIdx(I, ptr_op), val_r, state))
                 ELSE SetVal(state, base, val_r)
         [] ins.op = "call" ->
              SetVal(IF ins.c # NoVal THEN Clobber(I, ins.args, 1, state) ELSE state, me, r_top)
         [] ins.op \in BinOps ->
              LET r1 == get_range(I, ins.a, state)
                  r2 == get_range(I, ins.b, state)
              IN SetVal(state, me, CASE ins.op = "add" -> add(r1, r2)
                                      [] ins.op = "sub" -> sub(r1, r2)
                                      [] ins.op = "mul" -> mul(r1, r2)
                                      [] OTHER -> r_top)
         [] ins.op = "select" -> SetVal(state, me, join(get_range(I, ins.a, state), get_range(I, ins.b, state)))
         [] ins.op = "cast" -> SetVal(state, me, get_range(I, ins.a, state))
         [] OTHER -> state

RECURSIVE RunInsts(_, _, _, _, _)

\* transfer_inst over the instructions ids[i..] of a block, in order.
RunInsts(I, ids, i, state, outs) ==
    IF i > Len(ids) THEN state
    ELSE RunInsts(I, ids, i + 1, transfer_inst(I, ids[i], state, outs), outs)

\* ---------------------------------------------------- refine_br (526-625)

getSwappedPredicate(pred) ==
    CASE pred = "sgt" -> "slt" [] pred = "slt" -> "sgt"
      [] pred = "sge" -> "sle" [] pred = "sle" -> "sge"
      [] pred = "ugt" -> "ult" [] pred = "ult" -> "ugt"
      [] OTHER -> pred

\* A variant of getInversePredicate that leaves the predicate as it is,
\* against which the sensitivity of C11 is measured.
keep_predicate(pred) == pred

getInversePredicate(pred) ==
    CASE pred = "sgt" -> "sle" [] pred = "sle" -> "sgt"
      [] pred = "sge" -> "slt" [] pred = "slt" -> "sge"
      [] pred = "ugt" -> "ule" [] pred = "ult" -> "uge"
      [] pred = "eq" -> "ne" [] pred = "ne" -> "eq"
      [] OTHER -> pred

\* The operand pattern of the comparison (540-573): <<var, cint, swapped>>,
\* var = NoVal when no pattern matches.
BrPattern(I, cmp, pred_state) ==
    LET lhs == cmp.a
        rhs == cmp.b
        none == <<NoVal, NoVal, FALSE>>
    IN IF IsLoadInst(I, lhs) THEN
           IF IsConstantInt(rhs) THEN <<get_base_ptr(I, I[lhs.n].a), rhs, FALSE>> ELSE none
       ELSE IF IsLoadInst(I, rhs) THEN
           IF IsConstantInt(lhs) THEN <<get_base_ptr(I, I[rhs.n].a), lhs, TRUE>> ELSE none
       ELSE IF IsArgument(lhs) THEN
           IF IsConstantInt(rhs) THEN <<lhs, rhs, FALSE>> ELSE none
       ELSE IF IsArgument(rhs) THEN
           IF IsConstantInt(lhs) THEN <<rhs, lhs, TRUE>> ELSE none
       ELSE IF IsConstantInt(rhs) THEN
           IF Has(pred_state.val_ranges, lhs) THEN <<lhs, rhs, FALSE>> ELSE none
       ELSE IF IsConstantInt(lhs) THEN
           IF Has(pred_state.val_ranges, rhs) THEN <<rhs, lhs, TRUE>> ELSE none
       ELSE none

\* The filter interval of a predicate and a constant (585-617).
FilterOf(pred, const_val, var_r) ==
    CASE pred = "sgt" -> IF const_val = INT_MAX THEN r_bot ELSE range(const_val + 1, INT_MAX)
      [] pred = "sge" -> range(const_val, INT_MAX)
      [] pred = "slt" -> IF const_val = INT_MIN THEN r_bot ELSE range(INT_MIN, const_val - 1)
      [] pred = "sle" -> range(INT_MIN, const_val)
      [] pred = "eq" -> range(const_val, const_val)
      [] pred = "ne" -> IF get_low(var_r) = const_val /\ get_high(var_r) = const_val THEN r_bot ELSE r_top
      [] OTHER -> r_top

\* A variant of Refined that never marks the state unreachable, against
\* which the sensitivity of C12 is measured.
RefinedStaysReachable(pred_state, var, refined) == SetVal(pred_state, var, refined)

\* The end of refine_br (619-624): bind the refined interval, and mark the
\* state unreachable when it is Bottom.
Refined(pred_state, var, refined) ==
    [SetVal(pred_state, var, refined) EXCEPT !.reachable = IF refined = r_bot THEN FALSE ELSE @]

refine_br(I, br, succ, pred_state) ==
    IF br.op # "condbr" THEN pred_state
    ELSE IF ~IsOp(I, br.a, {"icmp"}) THEN pred_state
    ELSE LET cmp == I[br.a.n]
             pat == BrPattern(I, cmp, pred_state)
             var == pat[1]
             pred0 == IF pat[3] THEN getSwappedPredicate(cmp.pred) ELSE cmp.pred
         IN IF var = NoVal \/ ~Has(pred_state.val_ranges, var) THEN pred_state
            ELSE LET var_r == pred_state.val_ranges[var]
                     is_true_path == (succ = br.targets[1])
                     pred == IF is_true_path THEN pred0 ELSE getInversePredicate(pred0)
                     filter_r == FilterOf(pred, pat[2].n, var_r)
                 IN Refined(pred_state, var, intersect(var_r, filter_r))

RECURSIVE CaseRange(_, _, _, _)

\* The join of the case values that target succ (643-649); cases is the
\* list of (value, successor) pairs of the switch.
CaseRange(cases, i, succ, case_r) ==
    IF i > Len(cases) THEN case_r
    ELSE CaseRange(cases, i + 1, succ,
                   IF cases[i][2] = succ THEN join(case_r, range(cases[i][1], cases[i][1])) ELSE case_r)

\* refine_sw (627-659); targets[1] is the default destination.
refine_sw(I, sw, succ, pred_state) ==
    LET cond == sw.a
        var == IF IsLoadInst(I, cond) THEN get_base_ptr(I, I[cond.n].a)
               ELSE IF IsArgument(cond) \/ Has(pred_state.val_ranges, cond) THEN cond
               ELSE NoVal
    IN IF var = NoVal \/ ~Has(pred_state.val_ranges, var) THEN pred_state
       ELSE IF sw.targets[1] = succ THEN pred_state
       ELSE Refined(pred_state, var,
                    intersect(pred_state.val_ranges[var], CaseRange(sw.inc, 1, succ, r_bot)))

\* --------------------------------------------------- widen_loop (661-693)

\* A variant of WidenRange that accepts the new interval as it is, against
\* which the sensitivity of C18 is measured.
WidenNever(old_r, new_r) == new_r

WidenRange(old_r, new_r) ==
    IF old_r # new_r /\ old_r # r_bot
       /\ (get_low(new_r) < get_low(old_r) \/ get_high(new_r) > get_high(old_r))
    THEN range(IF get_low(new_r) < get_low(old_r) THEN INT_MIN ELSE get_low(new_r),
               IF get_high(new_r) > get_high(old_r) THEN INT_MAX ELSE get_high(new_r))
    ELSE new_r

\* A variant of WidenArr that compares the default and the number of slots
\* only, against which the sensitivity of C20 is measured.
WidenArrBySize(old_arr, new_arr) ==
    IF new_arr.default_r # old_arr.default_r
       \/ Cardinality(DOMAIN new_arr.elem_map) # Cardinality(DOMAIN old_arr.elem_map)
    THEN arr_state(r_top, EmptyMap) ELSE new_arr

WidenArr(old_arr, new_arr) ==
    IF new_arr.default_r # old_arr.default_r \/ new_arr.elem_map # old_arr.elem_map
    THEN TopArr ELSE new_arr

widen_loop(pred_state, in_st, pred, curr, back_edges) ==
    IF <<pred, curr>> \notin back_edges THEN pred_state
    ELSE block_state(pred_state.reachable,
             [val \in DOMAIN pred_state.val_ranges |->
                 IF Has(in_st.val_ranges, val)
                 THEN WidenRange(in_st.val_ranges[val], pred_state.val_ranges[val])
                 ELSE pred_state.val_ranges[val]],
             [alloc \in DOMAIN pred_state.arr_states |->
                 IF Has(in_st.arr_states, alloc)
                 THEN WidenArr(in_st.arr_states[alloc], pred_state.arr_states[alloc])
                 ELSE pred_state.arr_states[alloc]])

\* ----------------------------------------------------- needs_check (695-704)

\* A variant of needs_check that accepts an upper bound equal to size,
\* against which the sensitivity of C4 is measured.
needs_check_upto(r, size) ==
    IF r = r_bot THEN FALSE
    ELSE IF size = 0 THEN TRUE
    ELSE IF r # r_top /\ get_low(r) >= 0 /\ get_high(r) <= size THEN FALSE
    ELSE TRUE

needs_check(r, size) ==
    IF r = r_bot THEN FALSE
    ELSE IF size = 0 THEN TRUE
    ELSE IF r # r_top /\ get_low(r) >= 0 /\ get_high(r) < size THEN FALSE
    ELSE TRUE

\* --------------------------------------------------------------- variables

VARIABLES
    ra, rb, rres, rop,       \* the lattice operators at work
    aarr, aidx, aval, ast, aarr2, alidx, abefore, aafter, aphase,   \* store_elem / load_elem at work
    ea, eb, eres, ephase,    \* operator!= at work
    bcase, bres, bphase,     \* refine_br at work
    wcase, wres, wphase,     \* widen_loop at work
    ccase, cres, cphase,     \* the transfer of a call at work
    jcase, jres, jchanged, jarr, jphase,   \* join_state / join_arr at work
    pcase, pointsTo, modified_pts, ppc, prounds,   \* the points-to fixpoint of PointerAnalysis
    F0,                      \* the function as handed to run_pass
    F,                       \* the function as it is now (add_check rewrites it)
    pc,                      \* where run_pass is
    back_edges, in_state, out_state, wk, in_wk,
    visits,                  \* iterations of the worklist loop so far
    snapped,                 \* <<edge source, block, value, side>> widen_loop has snapped so far
    geps, gi,                \* the collected accesses and the next one to visit
    outcome,                 \* access -> what the instrumentation phase did
    modified,
    xstatus, xrew, xblk, xpos, xprev, xargs, xenv, xmem   \* a run of the function

jvars == <<jcase, jres, jchanged, jarr, jphase>>

qvars == <<pcase, pointsTo, modified_pts, ppc, prounds>>

tvars == <<bcase, bres, bphase, wcase, wres, wphase, ccase, cres, cphase, jvars, qvars>>

rvars == <<ra, rb, rres, rop, aarr, aidx, aval, ast, aarr2, alidx, abefore, aafter, aphase, ea, eb, eres, ephase, tvars>>

pvars == <<F0, F, pc, back_edges, in_state, out_state, wk, in_wk, visits, snapped, geps, gi, outcome, modified>>

xvars == <<xstatus, xrew, xblk, xpos, xprev, xargs, xenv, xmem>>

vars == <<ra, rb, rres, rop, aarr, aidx, aval, ast, aarr2, alidx, abefore, aafter, aphase, ea, eb, eres, ephase,
          bcase, bres, bphase, wcase, wres, wphase, ccase, cres, cphase,
          jcase, jres, jchanged, jarr, jphase, pcase, pointsTo, modified_pts, ppc, prounds,
          F0, F, pc, back_edges, in_state, out_state, wk, in_wk, visits, snapped, geps, gi, outcome, modified,
          xstatus, xrew, xblk, xpos, xprev, xargs, xenv, xmem>>

ExecIdle ==
    /\ xstatus = "off" /\ xrew = FALSE /\ xblk = 0 /\ xpos = 0 /\ xprev = 0
    /\ xargs = <<>> /\ xenv = EmptyMap /\ xmem = EmptyMap

NoFunction == [name |-> "", src |-> <<>>, nargs |-> 0, insts |-> <<>>, blocks |-> <<>>]

LatticeIdle == ra = r_bot /\ rb = r_bot /\ rres = r_bot /\ rop = "off"

ArrIdle ==
    /\ aarr = NewArr /\ aidx = NoVal /\ aval = r_bot /\ ast = NewState /\ aarr2 = NewArr
    /\ alidx = NoVal /\ abefore = r_bot /\ aafter = r_bot /\ aphase = "off"

EqIdle == ea = NewState /\ eb = NewState /\ eres = FALSE /\ ephase = "off"

BrIdle == bcase = <<>> /\ bres = NewState /\ bphase = "off"

WidenIdle == wcase = <<>> /\ wres = NewState /\ wphase = "off"

CallIdle == ccase = <<>> /\ cres = NewState /\ cphase = "off"

JoinIdle == jcase = <<>> /\ jres = NewState /\ jchanged = FALSE /\ jarr = NewArr /\ jphase = "off"

PtsIdle == pcase = <<>> /\ pointsTo = EmptyMap /\ modified_pts = FALSE /\ ppc = "off" /\ prounds = 0

StepIdle == BrIdle /\ WidenIdle /\ CallIdle /\ JoinIdle /\ PtsIdle

RangeIdle == LatticeIdle /\ ArrIdle /\ EqIdle /\ StepIdle

PassIdle ==
    /\ F0 = NoFunction /\ F = NoFunction /\ pc = "off"
    /\ back_edges = {} /\ in_state = EmptyMap /\ out_state = EmptyMap
    /\ wk = <<>> /\ in_wk = {} /\ visits = 0 /\ snapped = {} /\ geps = <<>> /\ gi = 0
    /\ outcome = EmptyMap /\ modified = FALSE
    /\ ExecIdle

\* ------------------------------------------- instructions and functions

AllocaArr(n) == [Ins("alloca_arr", NoVal, NoVal) EXCEPT !.n = n]

Alloca == Ins("alloca", NoVal, NoVal)

Load(p) == Ins("load", p, NoVal)

Store(v, p) == Ins("store", v, p)

Gep(base, idx) == [Ins("gep", base, idx) EXCEPT !.n = 2]

ICmp(pred, a, b) == [Ins("icmp", a, b) EXCEPT !.pred = pred]

Br(t) == [Ins("br", NoVal, NoVal) EXCEPT !.targets = <<t>>]

CondBr(c, t, f) == [Ins("condbr", c, NoVal) EXCEPT !.targets = <<t, f>>]

Ret(v) == Ins("ret", v, NoVal)

Phi(inc) == [Ins("phi", NoVal, NoVal) EXCEPT !.inc = inc]

\* src names the source-level program the function was compiled from.
Function(name, src, nargs, insts, blocks) ==
    [name |-> name, src |-> src, nargs |-> nargs, insts |-> insts, blocks |-> blocks]

\* ------------------------------------------- the lattice operators at work

RangeInit ==
    /\ ra \in Ranges
    /\ rb \in Ranges
    /\ rres = r_bot
    /\ rop = "none"
    /\ ArrIdle /\ EqIdle /\ StepIdle /\ PassIdle

ROther == <<aarr, aidx, aval, ast, aarr2, alidx, abefore, aafter, aphase, ea, eb, eres, ephase, tvars, pvars, xvars>>

RAdd == rop = "none" /\ rop' = "add" /\ rres' = add(ra, rb) /\ UNCHANGED <<ra, rb, ROther>>

RSub == rop = "none" /\ rop' = "sub" /\ rres' = sub(ra, rb) /\ UNCHANGED <<ra, rb, ROther>>

RMul == rop = "none" /\ rop' = "mul" /\ rres' = mul(ra, rb) /\ UNCHANGED <<ra, rb, ROther>>

RJoin == rop = "none" /\ rop' = "join" /\ rres' = join(ra, rb) /\ UNCHANGED <<ra, rb, ROther>>

RIntersect == rop = "none" /\ rop' = "intersect" /\ rres' = intersect(ra, rb) /\ UNCHANGED <<ra, rb, ROther>>

RangeNext == RAdd \/ RSub \/ RMul \/ RJoin \/ RIntersect

SpecRange == RangeInit /\ [][RangeNext]_vars

\* --------------------------------------------- store_elem / load_elem at work

\* Largest constant index of the array stores tried.
MaxIdx == 1

\* The values an index operand is drawn from: %1 = alloca [2 x i32],
\* %2 = alloca i32, %3 = load %2, %4 = add %3, 1.
ProbeInsts == << AllocaArr(2), Alloca, Load(Reg(2)), Ins("add", Reg(3), CInt(1)) >>

ProbeIdx == {CInt(i) : i \in 0..MaxIdx} \cup {CExpr, Reg(3), Reg(4), Arg(1)}

\* All functions from a subset of keys to vals.
Maps(keys, vals) == UNION {[d -> vals] : d \in SUBSET keys}

ProbeArrs == {arr_state(d, em) : d \in {range(0, 0), range(2, 5), r_top},
                                em \in Maps(0..MaxIdx, {range(0, 0), range(5, 5), range(2, 6)})}

ProbeVals == {range(1, 1), range(0, 3), r_top}

ProbeScalars == Maps({Reg(2), Reg(3)}, {range(0, 0), range(0, 1)})

ArrInit ==
    /\ aarr \in ProbeArrs
    /\ aidx \in ProbeIdx
    /\ aval \in ProbeVals
    /\ ast \in {block_state(TRUE, vr, EmptyMap) : vr \in ProbeScalars}
    /\ aarr2 = NewArr /\ alidx = NoVal /\ abefore = r_bot /\ aafter = r_bot
    /\ aphase = "init"
    /\ LatticeIdle /\ EqIdle /\ StepIdle /\ PassIdle

AOther == <<ra, rb, rres, rop, ea, eb, eres, ephase, tvars, pvars, xvars>>

AStore ==
    /\ aphase = "init"
    /\ aphase' = "stored"
    /\ aarr2' = store_elem(ProbeInsts, aarr, aidx, aval, ast)
    /\ UNCHANGED <<aarr, aidx, aval, ast, alidx, abefore, aafter, AOther>>

ALoad ==
    /\ aphase = "stored"
    /\ aphase' = "loaded"
    /\ alidx' \in ProbeIdx
    /\ abefore' = load_elem(ProbeInsts, aarr, alidx', ast)
    /\ aafter' = load_elem(ProbeInsts, aarr2, alidx', ast)
    /\ UNCHANGED <<aarr, aidx, aval, ast, aarr2, AOther>>

ArrNext == AStore \/ ALoad

SpecArr == ArrInit /\ [][ArrNext]_vars

\* ------------------------------------------------------ operator!= at work

\* The states run_pass compares: an unreachable state has empty maps.
ProbeStates ==
    {NewState} \cup
    {block_state(TRUE, vr, as) :
        vr \in Maps({Reg(2)}, {range(0, 0), range(0, 1)}),
        as \in Maps({Reg(1)}, {arr_state(d, em) : d \in {range(0, 0), r_top},
                                                  em \in Maps(0..MaxIdx, {range(0, 0), range(5, 5)})})}

EqInit ==
    /\ ea \in ProbeStates
    /\ eb \in ProbeStates
    /\ eres = FALSE
    /\ ephase = "init"
    /\ LatticeIdle /\ ArrIdle /\ StepIdle /\ PassIdle

ECompare ==
    /\ ephase = "init"
    /\ ephase' = "compared"
    /\ eres' = Neq(ea, eb)
    /\ UNCHANGED <<ea, eb, ra, rb, rres, rop, aarr, aidx, aval, ast, aarr2, alidx, abefore, aafter, aphase, tvars, pvars, xvars>>

EqNext == ECompare

SpecEq == EqInit /\ [][EqNext]_vars

\* ------------------------------------------------------- refine_br at work

SignedPreds == {"sgt", "sge", "slt", "sle", "eq", "ne"}

\* The intervals the compared variable is tracked with.
BrRanges == {r_bot} \cup {r \in {range(l, h) : l \in {INT_MIN, -1, 0, 3, 5, INT_MAX},
                                                 h \in {INT_MIN, -1, 0, 3, 5, INT_MAX}} : r.safelane <= r.offlane}

\* The compared variable of a case: a stack slot that is loaded, an
\* argument, or another tracked value; BrOperand is what the icmp reads and
\* BrVar is the key refine_br refines.
BrOperand(c) == CASE c.kind = "load" -> Reg(2) [] c.kind = "arg" -> Arg(1) [] OTHER -> Reg(3)

BrVar(c) == CASE c.kind = "load" -> Reg(1) [] c.kind = "arg" -> Arg(1) [] OTHER -> Reg(3)

\* %1 = alloca; %2 = load %1; %3 = add arg2, 1; %4 = alloca;
\* %5 = icmp pred x, k (or k, x); br %5, block 2, block 3.
BrInsts(c) ==
    << Alloca, Load(Reg(1)), Ins("add", Arg(2), CInt(1)), Alloca,
       IF c.swapped THEN ICmp(c.pred, CInt(c.k), BrOperand(c)) ELSE ICmp(c.pred, BrOperand(c), CInt(c.k)),
       CondBr(Reg(5), 2, 3) >>

\* The state at the end of the branching block: the variable at v and one
\* other tracked value.
BrState(c) == block_state(TRUE, (BrVar(c) :> c.v) @@ (Reg(4) :> range(1, 2)), EmptyMap)

BrInit ==
    /\ bcase \in [pred : SignedPreds, swapped : BOOLEAN, kind : {"load", "arg", "value"}, k : Ints, v : BrRanges]
    /\ bres = NewState
    /\ bphase = "init"
    /\ LatticeIdle /\ ArrIdle /\ EqIdle /\ WidenIdle /\ CallIdle /\ JoinIdle /\ PtsIdle /\ PassIdle

BOther == <<ra, rb, rres, rop, aarr, aidx, aval, ast, aarr2, alidx, abefore, aafter, aphase, ea, eb, eres, ephase,
            wcase, wres, wphase, ccase, cres, cphase, jvars, qvars, pvars, xvars>>

\* refine_br on the edge to the branch's first successor.
BrTaken ==
    /\ bphase = "init"
    /\ bphase' = "taken"
    /\ bres' = refine_br(BrInsts(bcase), BrInsts(bcase)[6], 2, BrState(bcase))
    /\ UNCHANGED <<bcase, BOther>>

\* refine_br on the edge to the branch's second successor.
BrNotTaken ==
    /\ bphase = "init"
    /\ bphase' = "nottaken"
    /\ bres' = refine_br(BrInsts(bcase), BrInsts(bcase)[6], 3, BrState(bcase))
    /\ UNCHANGED <<bcase, BOther>>

BrNext == BrTaken \/ BrNotTaken

SpecBr == BrInit /\ [][BrNext]_vars

\* ------------------------------------------------------ widen_loop at work

\* The states on the two sides of an edge from block 1 to block 2: one
\* scalar and one array, each tracked or not.
WidenStates ==
    {block_state(TRUE, vr, as) :
        vr \in Maps({Reg(1)}, {r_bot, range(0, 0), range(0, 1), range(1, 1), range(-1, 1),
                               range(0, INT_MAX), range(INT_MIN, 1), r_top}),
        as \in Maps({Reg(2)}, {arr_state(d, em) : d \in {range(0, 0), r_top},
                                                  em \in Maps({0, 1}, {range(0, 0), range(5, 5)})})}

WidenInit ==
    /\ wcase \in [old : WidenStates, new : WidenStates, back : BOOLEAN]
    /\ wres = NewState
    /\ wphase = "init"
    /\ LatticeIdle /\ ArrIdle /\ EqIdle /\ BrIdle /\ CallIdle /\ JoinIdle /\ PtsIdle /\ PassIdle

\* widen_loop of the state new arriving at block 2, whose previous in-state
\* is old, along the edge from block 1.
WidenStep ==
    /\ wphase = "init"
    /\ wphase' = "done"
    /\ wres' = widen_loop(wcase.new, wcase.old, 1, 2, IF wcase.back THEN {<<1, 2>>} ELSE {<<2, 2>>})
    /\ UNCHANGED <<wcase, ra, rb, rres, rop, aarr, aidx, aval, ast, aarr2, alidx, abefore, aafter, aphase,
                   ea, eb, eres, ephase, bcase, bres, bphase, ccase, cres, cphase, jvars, qvars, pvars, xvars>>

WidenNext == WidenStep

SpecWiden == WidenInit /\ [][WidenNext]_vars

\* ----------------------------------------------- the transfer of a call at work

\* A call instruction: callee is NoVal when the called function is not
\* known (getCalledFunction() is null for an indirect call).
Call(callee, args) == [Ins("call", NoVal, NoVal) EXCEPT !.c = callee, !.args = args]

\* %1 = alloca [2 x i32]; %2 = alloca i32; %3 = gep %1, 0, 0;
\* %4 = call f(args), f known or not.
CallInsts(c) ==
    << AllocaArr(2), Alloca, Gep(Reg(1), CInt(0)),
       Call(IF c.direct THEN Val("fn", 1) ELSE NoVal, c.args) >>

\* The state in front of the call: the array tracked with a slot, the
\* scalar slot and the integer argument with known intervals.
CallState(c) ==
    block_state(TRUE, (Reg(2) :> c.v) @@ (Arg(1) :> range(0, 0)),
                Reg(1) :> arr_state(c.d, 0 :> range(5, 5)))

CallInit ==
    /\ ccase \in [direct : BOOLEAN,
                  args : {<<Reg(1)>>, <<Reg(2)>>, <<Reg(3)>>, <<Arg(1)>>, <<PtrArg(2)>>,
                          <<Reg(1), Reg(2)>>, <<Arg(1), Reg(3)>>, <<>>},
                  v : {range(1, 2), range(0, 0), r_top},
                  d : {range(0, 0), range(2, 5), r_top}]
    /\ cres = NewState
    /\ cphase = "init"
    /\ LatticeIdle /\ ArrIdle /\ EqIdle /\ BrIdle /\ WidenIdle /\ JoinIdle /\ PtsIdle /\ PassIdle

\* transfer_inst of the call.
CallStep ==
    /\ cphase = "init"
    /\ cphase' = "done"
    /\ cres' = transfer_inst(CallInsts(ccase), 4, CallState(ccase), EmptyMap)
    /\ UNCHANGED <<ccase, ra, rb, rres, rop, aarr, aidx, aval, ast, aarr2, alidx, abefore, aafter, aphase,
                   ea, eb, eres, ephase, bcase, bres, bphase, wcase, wres, wphase, jvars, qvars, pvars, xvars>>

CallNext == CallStep

SpecCall == CallInit /\ [][CallNext]_vars

\* ------------------------------------------- join_state / join_arr at work

\* The operands of a join: the unreachable state, and the reachable states
\* over one stack slot, one argument and one array, each tracked or not.
JoinStates ==
    {NewState} \cup
    {block_state(TRUE, vr, as) :
        vr \in Maps({Reg(2), Arg(1)}, {r_bot, range(0, 0), range(2, 5)}),
        as \in Maps({Reg(1)}, {arr_state(d, em) : d \in {range(0, 0), range(2, 5)},
                                                  em \in Maps({0, 1}, {range(0, 0), range(5, 5)})})}

JoinInit ==
    /\ jcase \in [a : JoinStates, b : JoinStates]
    /\ jres = NewState /\ jchanged = FALSE /\ jarr = NewArr
    /\ jphase = "init"
    /\ LatticeIdle /\ ArrIdle /\ EqIdle /\ BrIdle /\ WidenIdle /\ CallIdle /\ PtsIdle /\ PassIdle

JOther == <<ra, rb, rres, rop, aarr, aidx, aval, ast, aarr2, alidx, abefore, aafter, aphase, ea, eb, eres, ephase,
            bcase, bres, bphase, wcase, wres, wphase, ccase, cres, cphase, qvars, pvars, xvars>>

\* a.join_state(b)
JoinStateStep ==
    /\ jphase = "init"
    /\ jphase' = "state"
    /\ jres' = join_state(jcase.a, jcase.b)
    /\ jchanged' = join_state_changed(jcase.a, jcase.b)
    /\ UNCHANGED <<jcase, jarr, JOther>>

\* arr_state::join_arr of the stores the two states hold for the array.
JoinArrStep ==
    /\ jphase = "init"
    /\ Has(jcase.a.arr_states, Reg(1)) /\ Has(jcase.b.arr_states, Reg(1))
    /\ jphase' = "arr"
    /\ jarr' = join_arr(jcase.a.arr_states[Reg(1)], jcase.b.arr_states[Reg(1)])
    /\ UNCHANGED <<jcase, jres, jchanged, JOther>>

JoinNext == JoinStateStep \/ JoinArrStep

SpecJoin == JoinInit /\ [][JoinNext]_vars

\* ------------- PointerAnalysis (src/Pointer_analysis/Pointer_Analysis.cc)

\* Most instructions of a function handed to PointerAnalysis.
MaxInsts == 3

\* A memory object (an alloca) and the value of instruction i.
Obj(n) == <<"obj", n>>

Tmp(i) == <<"inst", i>>

Nil == <<"nil", 0>>

\* The allocas of the function (159-166), in the order they are inserted.
memObj == {Obj(1), Obj(2)}

\* The instructions the constructor distinguishes: store a, b (value a to
\* pointer b), load a, gep a (with an index that is not zero, which
\* stripPointerCasts leaves in place), inttoptr.
PInst(op, a, b) == [op |-> op, a |-> a, b |-> b]

\* The instructions that can follow the instructions is: their operands
\* are memory objects and the values of earlier instructions (a store has
\* no value).
PInstAfter(is) ==
    LET vals == memObj \cup {Tmp(j) : j \in {k \in DOMAIN is : is[k].op # "store"}}
    IN {PInst("store", v, q) : v \in vals, q \in vals}
       \cup {PInst("load", q, Nil) : q \in vals}
       \cup {PInst("gep", q, Nil) : q \in vals}
       \cup {PInst("inttoptr", Nil, Nil)}

RECURSIVE PInstSeqs(_)

PInstSeqs(n) ==
    IF n = 0 THEN {<<>>}
    ELSE UNION {{Append(is, x) : x \in PInstAfter(is)} : is \in PInstSeqs(n - 1)}

\* getPtrObj (20-30): the value, which stripPointerCasts leaves as it is,
\* if it is a memory object, else null.
getPtrObj(val) == IF val \in memObj THEN val ELSE Nil

\* getPtsToSet (41-51)
getPtsToSet(src, pts) ==
    (IF getPtrObj(src) # Nil THEN {getPtrObj(src)} ELSE {})
    \cup (IF src \in DOMAIN pts THEN pts[src] ELSE {})

\* pointsTo[key] with the targets added by insertIfAbsent (32-39); the
\* entry is created when absent.
Insert(pts, key, targets) ==
    [k \in DOMAIN pts \cup {key} |->
        IF k = key THEN (IF key \in DOMAIN pts THEN pts[key] ELSE {}) \cup targets ELSE pts[k]]

RECURSIVE ScanList(_, _, _)

\* The constraint list of one kind (copy, load or store) the constructor
\* appends to while it scans the instructions from position i (185-282):
\* a store whose operands are both memory objects adds no constraint; an
\* inttoptr copies from every memory object.
ScanList(insts, i, kind) ==
    IF i > Len(insts) THEN <<>>
    ELSE LET ins == insts[i]
             here ==
                 CASE kind = "store" /\ ins.op = "store" ->
                        IF getPtrObj(ins.b) # Nil /\ getPtrObj(ins.a) # Nil THEN <<>> ELSE << <<ins.b, ins.a>> >>
                   [] kind = "load" /\ ins.op = "load" -> << <<Tmp(i), ins.a>> >>
                   [] kind = "copy" /\ ins.op = "gep" -> << <<Tmp(i), ins.a>> >>
                   [] kind = "copy" /\ ins.op = "inttoptr" -> << <<Tmp(i), Obj(1)>>, <<Tmp(i), Obj(2)>> >>
                   [] OTHER -> <<>>
         IN here \o ScanList(insts, i + 1, kind)

copy(insts) == ScanList(insts, 1, "copy")

load(insts) == ScanList(insts, 1, "load")

store(insts) == ScanList(insts, 1, "store")

\* The points-to map when the scan ends (168-282): an empty entry for every
\* memory object and every load, gep and inttoptr, and the target of every
\* store of a memory object to a memory object.
ScannedPointsTo(insts) ==
    [k \in memObj \cup {Tmp(i) : i \in {j \in DOMAIN insts : insts[j].op # "store"}} |->
        {insts[j].a : j \in {j \in DOMAIN insts :
                                 insts[j].op = "store" /\ insts[j].b = k /\ insts[j].a \in memObj}}]

RECURSIVE pCopyFrom(_, _, _)

\* pCopy (81-93): the loop over copy from position i.
pCopyFrom(cs, i, pts) ==
    IF i > Len(cs) THEN pts
    ELSE pCopyFrom(cs, i + 1, Insert(pts, cs[i][1], getPtsToSet(cs[i][2], pts)))

RECURSIVE pLoadFrom(_, _, _)

\* pLoad (96-114): the loop over load from position i.
pLoadFrom(cs, i, pts) ==
    IF i > Len(cs) THEN pts
    ELSE pLoadFrom(cs, i + 1,
             Insert(pts, cs[i][1],
                    UNION {pts[m] : m \in getPtsToSet(cs[i][2], pts) \cap DOMAIN pts}))

RECURSIVE StoreInto(_, _, _, _)

\* The loop over ptrTargets of one store constraint (125-137); objs is the
\* part of ptrTargets still to visit and ptrTyped the memory objects whose
\* allocated type is a pointer.
StoreInto(objs, srcTargets, ptrTyped, pts) ==
    IF objs = {} THEN pts
    ELSE LET m == CHOOSE x \in objs : TRUE
         IN StoreInto(objs \ {m}, srcTargets, ptrTyped,
                      IF m \in ptrTyped THEN Insert(pts, m, srcTargets) ELSE pts)

RECURSIVE pStoreFrom(_, _, _, _)

\* pStore (116-140): the loop over store from position i.
pStoreFrom(cs, i, ptrTyped, pts) ==
    IF i > Len(cs) THEN pts
    ELSE pStoreFrom(cs, i + 1, ptrTyped,
             StoreInto(getPtsToSet(cs[i][1], pts), getPtsToSet(cs[i][2], pts), ptrTyped, pts))

\* The value pCopy, pLoad and pStore return: whether insertIfAbsent has
\* inserted a target.
Inserted(old, new) == \E k \in DOMAIN new : new[k] # (IF k \in DOMAIN old THEN old[k] ELSE {})

\* A variant of LoopAgain that looks at pCopy's result only, against
\* which the sensitivity of C30 is measured.
CopyOnly(old, afterCopy, afterStore, afterLoad) == Inserted(old, afterCopy)

\* The flag modified at the end of one iteration of the loop (284-297).
LoopAgain(old, afterCopy, afterStore, afterLoad) ==
    Inserted(old, afterCopy) \/ Inserted(afterCopy, afterStore) \/ Inserted(afterStore, afterLoad)

\* The fields of a PointerAnalysis when the scan of the instructions ends.
Scanned(insts, ptrTyped) ==
    [insts |-> insts, ptrTyped |-> ptrTyped,
     copy |-> copy(insts), load |-> load(insts), store |-> store(insts)]

PtsInit ==
    /\ pcase \in {Scanned(is, pt) : is \in UNION {PInstSeqs(n) : n \in 1..MaxInsts}, pt \in {{Obj(1)}, memObj}}
    /\ pointsTo = ScannedPointsTo(pcase.insts)
    /\ modified_pts = TRUE
    /\ ppc = "loop"
    /\ prounds = 0
    /\ LatticeIdle /\ ArrIdle /\ EqIdle /\ BrIdle /\ WidenIdle /\ CallIdle /\ JoinIdle /\ PassIdle

POther == <<ra, rb, rres, rop, aarr, aidx, aval, ast, aarr2, alidx, abefore, aafter, aphase, ea, eb, eres, ephase,
            bcase, bres, bphase, wcase, wres, wphase, ccase, cres, cphase, jvars, pvars, xvars>>

\* One iteration of while (modified) (285-297): pCopy, pStore, pLoad.
PtsRound ==
    /\ ppc = "loop"
    /\ modified_pts
    /\ LET afterCopy == pCopyFrom(pcase.copy, 1, pointsTo)
           afterStore == pStoreFrom(pcase.store, 1, pcase.ptrTyped, afterCopy)
           afterLoad == pLoadFrom(pcase.load, 1, afterStore)
       IN /\ pointsTo' = afterLoad
          /\ modified_pts' = LoopAgain(pointsTo, afterCopy, afterStore, afterLoad)
    /\ prounds' = prounds + 1
    /\ UNCHANGED <<pcase, ppc, POther>>

\* The loop is left with modified false.
PtsExit ==
    /\ ppc = "loop"
    /\ ~modified_pts
    /\ ppc' = "done"
    /\ UNCHANGED <<pcase, pointsTo, modified_pts, prounds, POther>>

PtsNext == PtsRound \/ PtsExit

SpecPts == PtsInit /\ [][PtsNext]_vars

\* ------------------------------------------------------ analysed functions

\* Most iterations of the worklist loop that are followed.
MaxVisits == 60

\* Largest array length of the counting loops.
MaxN == 3

\* int a[N]; for (i = start; c pred N; i += step) a[i] = 1;  with i in a
\* stack slot, as an unoptimised build emits it; c is i, or the function's
\* argument when onArg.
SlotLoopG(N, pred, start, step, onArg) ==
    Function("test", <<"loop", "slot", N, pred, start, step, onArg>>, IF onArg THEN 1 ELSE 0,
        << AllocaArr(N), Alloca, Store(CInt(start), Reg(2)), Br(2),
           Load(Reg(2)), ICmp(pred, IF onArg THEN Arg(1) ELSE Reg(5), CInt(N)), CondBr(Reg(6), 3, 4),
           Load(Reg(2)), Gep(Reg(1), Reg(8)), Store(CInt(1), Reg(9)),
           Load(Reg(2)), Ins("add", Reg(11), CInt(step)), Store(Reg(12), Reg(2)), Br(2),
           Ret(CInt(0)) >>,
        << <<1, 2, 3, 4>>, <<5, 6, 7>>, <<8, 9, 10, 11, 12, 13, 14>>, <<15>> >>)

\* The same loop with the counter in a phi.
PhiLoopG(N, pred, start, step, onArg) ==
    Function("test", <<"loop", "phi", N, pred, start, step, onArg>>, IF onArg THEN 1 ELSE 0,
        << AllocaArr(N), Br(2),
           Phi(<< <<CInt(start), 1>>, <<Reg(8), 3>> >>),
           ICmp(pred, IF onArg THEN Arg(1) ELSE Reg(3), CInt(N)), CondBr(Reg(4), 3, 4),
           Gep(Reg(1), Reg(3)), Store(CInt(1), Reg(6)), Ins("add", Reg(3), CInt(step)), Br(2),
           Ret(CInt(0)) >>,
        << <<1, 2>>, <<3, 4, 5>>, <<6, 7, 8, 9>>, <<10>> >>)

SlotLoop(N, pred) == SlotLoopG(N, pred, 0, 1, FALSE)

PhiLoop(N, pred) == PhiLoopG(N, pred, 0, 1, FALSE)

\* The functions with one loop and one loop-carried counter.
CountingLoops ==
    {SlotLoopG(N, p, st, step, oa) :
        N \in 1..MaxN, p \in {"slt", "sle", "ne", "sgt"}, st \in {0, 1}, step \in {1, -1}, oa \in BOOLEAN}
    \cup {PhiLoopG(N, p, st, step, oa) :
        N \in 1..MaxN, p \in {"slt", "sle", "ne", "sgt"}, st \in {0, 1}, step \in {1, -1}, oa \in BOOLEAN}

\* int a[2]; a[arg0] = 1; a[arg1] = 1;  two accesses in one block, neither
\* provably in bounds.
TwoAccesses ==
    Function("test", <<"two accesses">>, 2,
        << AllocaArr(2), Gep(Reg(1), Arg(1)), Store(CInt(1), Reg(2)),
           Gep(Reg(1), Arg(2)), Store(CInt(1), Reg(4)), Ret(CInt(0)) >>,
        << <<1, 2, 3, 4, 5, 6>> >>)

\* int a[2]; i = 3; t = i; i = 0; a[t] = 1;  with t kept in a register.
StaleIndex ==
    Function("test", <<"stale index">>, 0,
        << AllocaArr(2), Alloca, Store(CInt(3), Reg(2)), Load(Reg(2)), Store(CInt(0), Reg(2)),
           Gep(Reg(1), Reg(4)), Store(CInt(1), Reg(6)), Ret(CInt(0)) >>,
        << <<1, 2, 3, 4, 5, 6, 7, 8>> >>)

\* int a[2]; if (x <= 2) if (x > 3) a[x] = 1;  with x the argument: the
\* access is in a block no run reaches.
DeadBranch ==
    Function("test", <<"dead branch">>, 1,
        << AllocaArr(2), ICmp("sle", Arg(1), CInt(2)), CondBr(Reg(2), 2, 4),
           ICmp("sgt", Arg(1), CInt(3)), CondBr(Reg(4), 3, 4),
           Gep(Reg(1), Arg(1)), Store(CInt(1), Reg(6)), Br(4),
           Ret(CInt(0)) >>,
        << <<1, 2, 3>>, <<4, 5>>, <<6, 7, 8>>, <<9>> >>)

\* int x; (&x)[i] = 1;  with i the argument: an indexed access whose base
\* is an allocation that is not an array.
ScalarIndexed ==
    Function("test", <<"scalar indexed">>, 1,
        << Alloca, [Gep(Reg(1), Arg(1)) EXCEPT !.n = 1], Store(CInt(1), Reg(2)), Ret(CInt(0)) >>,
        << <<1, 2, 3, 4>> >>)

\* int a[2]; y = x; if (!(x < 2)) y = 0; a[y] = 1;  with x the argument and
\* y a phi at the join of the two branches.
PhiAfterBranch ==
    Function("test", <<"phi after branch">>, 1,
        << AllocaArr(2), ICmp("slt", Arg(1), CInt(2)), CondBr(Reg(2), 3, 2),
           Br(3),
           Phi(<< <<Arg(1), 1>>, <<CInt(0), 2>> >>), Gep(Reg(1), Reg(5)), Store(CInt(1), Reg(6)),
           Ret(CInt(0)) >>,
        << <<1, 2, 3>>, <<4>>, <<5, 6, 7, 8>> >>)

\* int a[2]; a[0] = 1; i = 0; while (x > 0) i = a[i];  with x the argument
\* and i in a stack slot: a loop-carried scalar that is read back from the
\* array it indexes.
SelfIndexed ==
    Function("test", <<"self indexed">>, 1,
        << AllocaArr(2), Alloca, Gep(Reg(1), CInt(0)), Store(CInt(1), Reg(3)), Store(CInt(0), Reg(2)), Br(2),
           ICmp("sgt", Arg(1), CInt(0)), CondBr(Reg(7), 3, 4),
           Load(Reg(2)), Gep(Reg(1), Reg(9)), Load(Reg(10)), Store(Reg(11), Reg(2)), Br(2),
           Ret(CInt(0)) >>,
        << <<1, 2, 3, 4, 5, 6>>, <<7, 8>>, <<9, 10, 11, 12, 13>>, <<14>> >>)

\* int a[2]; a[0] = 1; if (x > y) goto side; merge: ; use: a[a[0]] = 1;
\* return; side: a[0] = 2; goto merge;  with x, y the arguments: the block
\* side follows, in function order, the block merge it branches to.
LateStore ==
    Function("test", <<"late store">>, 2,
        << AllocaArr(2), Gep(Reg(1), CInt(0)), Store(CInt(1), Reg(2)),
           ICmp("sgt", Arg(1), Arg(2)), CondBr(Reg(4), 3, 2),
           Br(4),
           Gep(Reg(1), CInt(0)), Store(CInt(2), Reg(7)), Br(2),
           Gep(Reg(1), CInt(0)), Load(Reg(10)), Gep(Reg(1), Reg(11)), Store(CInt(1), Reg(12)), Ret(CInt(0)) >>,
        << <<1, 2, 3, 4, 5>>, <<6>>, <<7, 8, 9>>, <<10, 11, 12, 13, 14>> >>)

\* The function TwoAccesses under another name.
Renamed(name) == [TwoAccesses EXCEPT !.name = name, !.src = <<"two accesses", name>>]

OtherNames == {"main", "Test", "test2", ""}

Programs ==
    CountingLoops \cup {TwoAccesses, StaleIndex, DeadBranch, ScalarIndexed, PhiAfterBranch, SelfIndexed, LateStore}
    \cup {Renamed(name) : name \in OtherNames}

\* ------------------------------------------------------ run_pass (738-907)

PassInit ==
    /\ F0 \in Programs
    /\ F = F0
    /\ pc = "start"
    /\ back_edges = {} /\ in_state = EmptyMap /\ out_state = EmptyMap
    /\ wk = <<>> /\ in_wk = {} /\ visits = 0 /\ snapped = {} /\ geps = <<>> /\ gi = 0
    /\ outcome = EmptyMap /\ modified = FALSE
    /\ RangeIdle
    /\ ExecIdle

RECURSIVE SeqOf(_, _)

\* 1, 2, ..., n as a queue (753-756: every block is pushed, in function order).
SeqOf(i, n) == IF i > n THEN <<>> ELSE <<i>> \o SeqOf(i + 1, n)

\* A variant of IsTest that accepts every name starting with test, against
\* which the sensitivity of C28 is measured.
StartsWithTest(name) == name \in {"test", "test2"}

\* F.getName() == "test" (739).
IsTest(name) == name = "test"

\* 738-756: the name test, the back edges, the initial queue.
Begin ==
    /\ pc = "start"
    /\ IF ~IsTest(F.name)
       THEN /\ pc' = "ret"
            /\ UNCHANGED <<back_edges, wk, in_wk>>
       ELSE /\ pc' = "fix"
            /\ back_edges' = FindFunctionBackedges(F)
            /\ wk' = SeqOf(1, Len(F.blocks))
            /\ in_wk' = BlockIds(F)
    /\ UNCHANGED <<F0, F, in_state, out_state, visits, snapped, geps, gi, outcome, modified, rvars, xvars>>

\* The state a predecessor contributes along its edge to BB (774-782).
EdgeState(Fn, pred_bb, BB, outs, ins, be) ==
    LET term == Terminator(Fn, pred_bb)
        refined == IF term.op \in {"br", "condbr"} THEN refine_br(Fn.insts, term, BB, outs[pred_bb])
                   ELSE IF term.op = "switch" THEN refine_sw(Fn.insts, term, BB, outs[pred_bb])
                   ELSE outs[pred_bb]
    IN widen_loop(refined, StateAt(ins, BB), pred_bb, BB, be)

RECURSIVE JoinPreds(_, _, _, _, _, _, _, _)

\* The loop over predecessors(BB) (771-787).
JoinPreds(Fn, preds, i, BB, outs, ins, be, new_in_state) ==
    IF i > Len(preds) THEN new_in_state
    ELSE JoinPreds(Fn, preds, i + 1, BB, outs, ins, be,
             IF ~StateAt(outs, preds[i]).reachable THEN new_in_state
             ELSE LET pred_out == EdgeState(Fn, preds[i], BB, outs, ins, be)
                  IN IF pred_out.reachable THEN join_state(new_in_state, pred_out)
                     ELSE new_in_state)

\* The in-state run_pass computes for BB (763-788).
NewInState(Fn, BB, outs, ins, be) ==
    IF BB = 1
    THEN block_state(TRUE, [v \in {Arg(i) : i \in 1..Fn.nargs} |-> r_top], EmptyMap)
    ELSE JoinPreds(Fn, predecessors(Fn, BB), 1, BB, outs, ins, be, NewState)

\* A variant of NewOutState that transfers the instructions of a block
\* whatever its in-state, against which the sensitivity of C23 is measured.
NewOutStateAlways(Fn, BB, in_st, outs) == RunInsts(Fn.insts, Fn.blocks[BB], 1, in_st, outs)

\* The out-state run_pass computes from an in-state (792-812).
NewOutState(Fn, BB, in_st, outs) ==
    IF ~in_st.reachable THEN in_st
    ELSE RunInsts(Fn.insts, Fn.blocks[BB], 1, in_st, outs)

RECURSIVE PushAll(_, _, _, _)

\* The loop pushing the successors that are not queued (798-803, 815-820):
\* the pair <<wk, in_wk>> afterwards.
PushAll(succs, i, q, inq) ==
    IF i > Len(succs) THEN <<q, inq>>
    ELSE IF succs[i] \in inq THEN PushAll(succs, i + 1, q, inq)
    ELSE PushAll(succs, i + 1, Append(q, succs[i]), inq \cup {succs[i]})

\* A variant of OutChanged that always re-queues the successors, against
\* which the sensitivity of C5 is measured.
AlwaysChanged(old_out_state, current_state) == TRUE

\* Whether the driver sees the out-state as changed (797, 814).
OutChanged(old_out_state, current_state) == Neq(old_out_state, current_state)

\* The sides widen_loop snaps to MIN / MAX while the in-state of BB is
\* computed (671-679): for each reachable predecessor on a back-edge and
\* each value tracked on both sides, "low" when lower_expanding and "high"
\* when upper_expanding.
Snaps(Fn, BB, outs, ins, be) ==
    LET preds == predecessors(Fn, BB)
        in_st == StateAt(ins, BB)
    IN UNION {
         LET pred_bb == preds[i]
             term == Terminator(Fn, pred_bb)
             refined == IF term.op \in {"br", "condbr"} THEN refine_br(Fn.insts, term, BB, outs[pred_bb])
                        ELSE IF term.op = "switch" THEN refine_sw(Fn.insts, term, BB, outs[pred_bb])
                        ELSE outs[pred_bb]
             both == DOMAIN in_st.val_ranges \cap DOMAIN refined.val_ranges
         IN {<<pred_bb, BB, val, "low">> : val \in
                {v \in both : /\ in_st.val_ranges[v] # r_bot
                              /\ get_low(refined.val_ranges[v]) < get_low(in_st.val_ranges[v])}}
            \cup
            {<<pred_bb, BB, val, "high">> : val \in
                {v \in both : /\ in_st.val_ranges[v] # r_bot
                              /\ get_high(refined.val_ranges[v]) > get_high(in_st.val_ranges[v])}}
         : i \in {j \in 1..Len(preds) : BB # 1 /\ StateAt(outs, preds[j]).reachable /\ <<preds[j], BB>> \in be} }

\* A variant of QueueEmpty that lets the worklist loop be left at any
\* time, against which the sensitivity of C17 is measured.
QueueAnything(q) == TRUE

\* The exit test of the worklist loop (758).
QueueEmpty(q) == q = <<>>

\* One iteration of the worklist loop (758-822).
Visit ==
    /\ pc = "fix"
    /\ wk # <<>>
    /\ visits < MaxVisits
    /\ visits' = visits + 1
    /\ snapped' = snapped \cup Snaps(F, Head(wk), out_state, in_state, back_edges)
    /\ LET BB == Head(wk)
           new_in_state == NewInState(F, BB, out_state, in_state, back_edges)
           old_out_state == StateAt(out_state, BB)
           current_state == NewOutState(F, BB, new_in_state, out_state)
           pushed == IF OutChanged(old_out_state, current_state)
                     THEN PushAll(successors(F, BB), 1, Tail(wk), in_wk \ {BB})
                     ELSE <<Tail(wk), in_wk \ {BB}>>
       IN /\ in_state' = Put(in_state, BB, new_in_state)
          /\ out_state' = Put(out_state, BB, current_state)
          /\ wk' = pushed[1]
          /\ in_wk' = pushed[2]
    /\ UNCHANGED <<F0, F, pc, back_edges, geps, gi, outcome, modified, rvars, xvars>>

RECURSIVE Flatten(_, _)

Flatten(blocks, b) == IF b > Len(blocks) THEN <<>> ELSE blocks[b] \o Flatten(blocks, b + 1)

RECURSIVE Filter(_, _, _)

Filter(ids, i, keep) ==
    IF i > Len(ids) THEN <<>>
    ELSE (IF ids[i] \in keep THEN <<ids[i]>> ELSE <<>>) \o Filter(ids, i + 1, keep)

\* 823-832: the worklist is empty; collect every gep, in function order.
Collect ==
    /\ pc = "fix"
    /\ QueueEmpty(wk)
    /\ pc' = "instr"
    /\ geps' = Filter(Flatten(F.blocks, 1), 1, {id \in DOMAIN F.insts : F.insts[id].op = "gep"})
    /\ gi' = 1
    /\ modified' = FALSE
    /\ UNCHANGED <<F0, F, back_edges, in_state, out_state, wk, in_wk, visits, snapped, outcome, rvars, xvars>>

\* gep->getParent() in the function as it is now.
BlockOf(Fn, id) == CHOOSE b \in BlockIds(Fn) : \E i \in 1..Len(Fn.blocks[b]) : Fn.blocks[b][i] = id

PosOf(Fn, id) == CHOOSE i \in 1..Len(Fn.blocks[BlockOf(Fn, id)]) : Fn.blocks[BlockOf(Fn, id)][i] = id

\* The state immediately before instruction id: the in-state of its block
\* replayed over the instructions in front of it (852-859).
StateBefore(Fn, id, ins, outs) ==
    LET BB == BlockOf(Fn, id)
    IN RunInsts(Fn.insts, SubSeq(Fn.blocks[BB], 1, PosOf(Fn, id) - 1), 1, StateAt(ins, BB), outs)

\* The interval of the index of gep id (861-868).
IndexRange(Fn, id, ins, outs) ==
    IF Fn.insts[id].n >= 2
    THEN get_range(Fn.insts, GepIdx(Fn.insts, Reg(id)), StateBefore(Fn, id, ins, outs))
    ELSE r_top

\* Whether the base of a gep is an alloca of array type (842-849).
IsArrayAccess(Fn, id) == IsOp(Fn.insts, Fn.insts[id].a, {"alloca_arr"})

ArraySize(Fn, id) == Fn.insts[Fn.insts[id].a.n].n

\* A variant of GuardBranch with the two targets exchanged, against which
\* the sensitivity of C15 is measured.
GuardBranchSwapped(in_bounds, cont_bb, err_bb) == CondBr(in_bounds, err_bb, cont_bb)

\* The terminator add_check gives the split block (731).
GuardBranch(in_bounds, cont_bb, err_bb) == CondBr(in_bounds, cont_bb, err_bb)

\* A variant of add_check that leaves the function as it is, against which
\* the sensitivity of C14 is measured.
add_check_nothing(Fn, id, size) == Fn

\* add_check (706-736): the function with the guard of gep id inserted.
add_check(Fn, id, size) ==
    LET idx == GepIdx(Fn.insts, Reg(id))
        n == Len(Fn.insts)
        curr_bb == BlockOf(Fn, id)
        pos == PosOf(Fn, id)
        cont_bb == Len(Fn.blocks) + 1
        err_bb == Len(Fn.blocks) + 2
        old == Fn.blocks[curr_bb]
        moved == [i \in DOMAIN Fn.insts |->
                     IF Fn.insts[i].op = "phi"
                     THEN [Fn.insts[i] EXCEPT !.inc =
                              [k \in DOMAIN @ |-> IF @[k][2] = curr_bb THEN <<@[k][1], cont_bb>> ELSE @[k]]]
                     ELSE Fn.insts[i]]
    IN [Fn EXCEPT
          !.insts = moved \o << ICmp("sge", idx, CInt(0)), ICmp("slt", idx, CInt(size)),
                                Ins("and", Reg(n + 1), Reg(n + 2)),
                                GuardBranch(Reg(n + 3), cont_bb, err_bb),
                                Ret(CInt(-1)) >>,
          !.blocks = [Fn.blocks EXCEPT ![curr_bb] = SubSeq(old, 1, pos - 1) \o <<n + 1, n + 2, n + 3, n + 4>>]
                     \o << SubSeq(old, pos, Len(old)), <<n + 5>> >>]

\* One iteration of the loop over the collected geps (834-904).
Instrument ==
    /\ pc = "instr"
    /\ gi <= Len(geps)
    /\ LET gep == geps[gi]
           BB == BlockOf(F, gep)
           idx_r == IndexRange(F, gep, in_state, out_state)
           arr_size == ArraySize(F, gep)
       IN IF ~StateAt(in_state, BB).reachable
          THEN /\ outcome' = Put(outcome, gep, "unreachable")
               /\ UNCHANGED <<F, modified>>
          ELSE IF ~IsArrayAccess(F, gep)
          THEN UNCHANGED <<F, modified, outcome>>
          ELSE IF ~needs_check(idx_r, arr_size)
          THEN /\ outcome' = Put(outcome, gep, IF idx_r = r_bot THEN "dead" ELSE "safe")
               /\ UNCHANGED <<F, modified>>
          ELSE /\ F' = add_check(F, gep, arr_size)
               /\ modified' = TRUE
               /\ outcome' = Put(outcome, gep, "inserted")
    /\ gi' = gi + 1
    /\ UNCHANGED <<F0, pc, back_edges, in_state, out_state, wk, in_wk, visits, snapped, geps, rvars, xvars>>

\* 906: every collected gep was visited; run_pass returns.
Return ==
    /\ pc = "instr"
    /\ gi > Len(geps)
    /\ pc' = "ret"
    /\ UNCHANGED <<F0, F, back_edges, in_state, out_state, wk, in_wk, visits, snapped, geps, gi, outcome, modified, rvars, xvars>>

\* -------------------------------------------- a run of the analysed function

\* Two's-complement wrap-around of the machine integer.
Wrap(x) == ((x - INT_MIN) % (2 * INT_MAX + 2)) + INT_MIN

\* The function a run executes: as handed to run_pass, or as rewritten.
XFn == IF xrew THEN F ELSE F0

XIns == XFn.insts[XFn.blocks[xblk][xpos]]

XId == XFn.blocks[xblk][xpos]

\* The value of an operand in the run.
XVal(v) ==
    CASE v.k = "cint" -> v.n
      [] v.k \in {"arg", "parg"} -> xargs[v.n]
      [] OTHER -> xenv[v.n]

XCmp(pred, x, y) ==
    CASE pred = "slt" -> x < y [] pred = "sle" -> x <= y
      [] pred = "sgt" -> x > y [] pred = "sge" -> x >= y
      [] pred = "eq" -> x = y [] OTHER -> x # y

RECURSIVE Tuples(_, _)

Tuples(n, S) == IF n = 0 THEN {<<>>} ELSE {Append(t, x) : t \in Tuples(n - 1, S), x \in S}

\* run_pass has returned; the function is called with some arguments.
ExecStart ==
    /\ pc = "ret"
    /\ xstatus = "off"
    /\ xstatus' = "run"
    /\ xrew' \in BOOLEAN
    /\ xargs' \in Tuples(F0.nargs, Ints)
    /\ xblk' = 1 /\ xpos' = 1 /\ xprev' = 0
    /\ xenv' = EmptyMap /\ xmem' = EmptyMap
    /\ UNCHANGED <<pvars, rvars>>

XGoto(b) == xblk' = b /\ xpos' = 1 /\ xprev' = xblk

XFall == xblk' = xblk /\ xpos' = xpos + 1 /\ xprev' = xprev

\* The address a pointer operand denotes: <<object, index>>, index 0 for a
\* scalar object.
XAddr(p) == IF IsGEP(XFn.insts, p) THEN xenv[p.n] ELSE <<p.n, 0>>

XInBounds(addr) == addr[2] \in DOMAIN xmem[addr[1]]

\* One instruction of the run. A freshly allocated array holds zeroes (the
\* data model's assumption); a scalar slot holds an arbitrary value until
\* it is written; an access outside its object ends the run.
ExecStep ==
    /\ xstatus = "run"
    /\ LET ins == XIns
           id == XId
       IN CASE ins.op = "alloca_arr" ->
                 /\ xmem' = Put(xmem, id, [i \in 0..(ins.n - 1) |-> 0])
                 /\ XFall /\ UNCHANGED <<xenv, xstatus>>
            [] ins.op = "alloca" ->
                 /\ \E u \in Ints : xmem' = Put(xmem, id, [i \in {0} |-> u])
                 /\ XFall /\ UNCHANGED <<xenv, xstatus>>
            [] ins.op = "gep" ->
                 /\ xenv' = Put(xenv, id, <<ins.a.n, XVal(ins.b)>>)
                 /\ XFall /\ UNCHANGED <<xmem, xstatus>>
            [] ins.op = "load" ->
                 IF XInBounds(XAddr(ins.a))
                 THEN /\ xenv' = Put(xenv, id, xmem[XAddr(ins.a)[1]][XAddr(ins.a)[2]])
                      /\ XFall /\ UNCHANGED <<xmem, xstatus>>
                 ELSE xstatus' = "ub" /\ UNCHANGED <<xblk, xpos, xprev, xenv, xmem>>
            [] ins.op = "store" ->
                 IF XInBounds(XAddr(ins.b))
                 THEN /\ xmem' = [xmem EXCEPT ![XAddr(ins.b)[1]][XAddr(ins.b)[2]] = XVal(ins.a)]
                      /\ XFall /\ UNCHANGED <<xenv, xstatus>>
                 ELSE xstatus' = "ub" /\ UNCHANGED <<xblk, xpos, xprev, xenv, xmem>>
            [] ins.op \in BinOps ->
                 /\ xenv' = Put(xenv, id,
                        CASE ins.op = "add" -> Wrap(XVal(ins.a) + XVal(ins.b))
                          [] ins.op = "sub" -> Wrap(XVal(ins.a) - XVal(ins.b))
                          [] ins.op = "mul" -> Wrap(XVal(ins.a) * XVal(ins.b))
                          [] ins.op = "and" -> IF XVal(ins.a) = 1 /\ XVal(ins.b) = 1 THEN 1 ELSE 0
                          [] OTHER -> 0)
                 /\ XFall /\ UNCHANGED <<xmem, xstatus>>
            [] ins.op = "icmp" ->
                 /\ xenv' = Put(xenv, id, IF XCmp(ins.pred, XVal(ins.a), XVal(ins.b)) THEN 1 ELSE 0)
                 /\ XFall /\ UNCHANGED <<xmem, xstatus>>
            [] ins.op = "phi" ->
                 /\ xenv' = Put(xenv, id,
                        XVal(ins.inc[CHOOSE k \in DOMAIN ins.inc : ins.inc[k][2] = xprev][1]))
                 /\ XFall /\ UNCHANGED <<xmem, xstatus>>
            [] ins.op = "select" ->
                 /\ xenv' = Put(xenv, id, IF XVal(ins.c) = 1 THEN XVal(ins.a) ELSE XVal(ins.b))
                 /\ XFall /\ UNCHANGED <<xmem, xstatus>>
            [] ins.op = "cast" ->
                 /\ xenv' = Put(xenv, id, XVal(ins.a))
                 /\ XFall /\ UNCHANGED <<xmem, xstatus>>
            [] ins.op = "br" ->
                 /\ XGoto(ins.targets[1]) /\ UNCHANGED <<xenv, xmem, xstatus>>
            [] ins.op = "condbr" ->
                 /\ XGoto(IF XVal(ins.a) = 1 THEN ins.targets[1] ELSE ins.targets[2])
                 /\ UNCHANGED <<xenv, xmem, xstatus>>
            [] OTHER ->
                 /\ xstatus' = "ret"
                 /\ xenv' = Put(xenv, id, XVal(ins.a))
                 /\ UNCHANGED <<xblk, xpos, xprev, xmem>>
    /\ UNCHANGED <<xrew, xargs, pvars, rvars>>

Next == Begin \/ Visit \/ Collect \/ Instrument \/ Return \/ ExecStart \/ ExecStep

Init == PassInit

Spec == Init /\ [][Next]_vars

\* ------------------------------------------------------------------ claims

\* Lattice order of the data model (set inclusion of the concretisations):
\* Bottom is least; otherwise [l1,h1] is below [l2,h2] iff it is contained.
RLeq(r1, r2) ==
    \/ r1 = r_bot
    \/ r2 # r_bot /\ r2.safelane <= r1.safelane /\ r1.offlane <= r2.offlane

\* The concrete integers a range stands for.
Gamma(r) == IF r = r_bot THEN {} ELSE r.safelane..r.offlane

\* The array accesses of the function handed to run_pass.
Accesses == {id \in DOMAIN F0.insts : F0.insts[id].op = "gep" /\ IsArrayAccess(F0, id)}

\* The interval the fixpoint solved for the index of an access: the in-state
\* of its block replayed up to the access, in the function as analysed.
SolvedIndex(id) == IndexRange(F0, id, in_state, out_state)

\* A guard is required unless the interval is Bottom, or is not Top and
\* lies within [0, size-1].
GuardRequired(r, size) ==
    /\ r # r_bot
    /\ ~(r # r_top /\ 0 <= get_low(r) /\ get_high(r) <= size - 1)

Guarded(id) == Has(outcome, id) /\ outcome[id] = "inserted"

\* C1: when run_pass returns, an array access has received a guard iff its
\* pre-rewrite solved index interval requires one, whatever was inserted
\* for the other accesses of its block.
C1_GuardFromPreRewriteFacts ==
    pc = "ret" /\ F0.name = "test" =>
        \A id \in Accesses : Guarded(id) <=> GuardRequired(SolvedIndex(id), ArraySize(F0, id))

\* C2: whenever a run of the analysed function stands at an array access,
\* the value of its index lies in the solved interval, and the block the
\* run is in is not marked unreachable.
C2_SolvedIndexSound ==
    xstatus = "run" /\ ~xrew /\ F0.name = "test" =>
        /\ StateAt(in_state, xblk).reachable
        /\ XId \in Accesses => XVal(GepIdx(F0.insts, Reg(XId))) \in Gamma(SolvedIndex(XId))

NoGuard == F = F0 /\ ~modified /\ \A id \in DOMAIN outcome : outcome[id] # "inserted"

\* The guard of access id tests 0 <= idx < size: the block the access was in
\* ends in a branch on (idx >= 0) and (idx < size) to the block that now
\* starts with the access, else to a block that only returns.
GuardTests(id, size) ==
    LET b0 == BlockOf(F0, id)
        br == Terminator(F, b0)
        idx == GepIdx(F0.insts, Reg(id))
    IN /\ br.op = "condbr"
       /\ IsOp(F.insts, br.a, {"and"})
       /\ F.insts[F.insts[br.a.n].a.n] = ICmp("sge", idx, CInt(0))
       /\ F.insts[F.insts[br.a.n].b.n] = ICmp("slt", idx, CInt(size))
       /\ F.blocks[br.targets[1]][1] = id
       /\ F.insts[F.blocks[br.targets[2]][1]].op = "ret"

IsCountingLoop == F0.src # <<>> /\ F0.src[1] = "loop"

IsCountUp(N, pred) == IsCountingLoop /\ SubSeq(F0.src, 3, 7) = <<N, pred, 0, 1, FALSE>>

TheAccess == CHOOSE id \in Accesses : TRUE

\* C4: for the loop counting up from 0 while counter < N over an N-element
\* array run_pass inserts no guard; while counter <= N it inserts exactly
\* one, at the access, testing 0 <= idx < N.
C4_CountingLoopEndToEnd ==
    pc = "ret" =>
        \A N \in 1..MaxN :
            /\ IsCountUp(N, "slt") => NoGuard
            /\ IsCountUp(N, "sle") =>
                  /\ {id \in DOMAIN outcome : outcome[id] = "inserted"} = {TheAccess}
                  /\ modified
                  /\ Len(F.blocks) = Len(F0.blocks) + 2
                  /\ GuardTests(TheAccess, N)

C4_Witness == pc = "ret" /\ IsCountUp(MaxN, "sle") /\ Guarded(TheAccess)

\* C5: for a function with one loop and one loop-carried counter (in a
\* stack slot or in a phi) the worklist loop empties the queue: while the
\* queue is non-empty fewer than MaxVisits blocks have been visited.
C5_FixpointTerminates == pc = "fix" /\ IsCountingLoop /\ wk # <<>> => visits < MaxVisits

C5_Witness ==
    /\ pc = "instr" /\ wk = <<>> /\ IsCountingLoop /\ back_edges # {}
    /\ visits > Len(F0.blocks) /\ visits < MaxVisits

\* An index operand that the array store does not resolve to one slot.
NonExact(idx, st) == ~StoreIsExact(ProbeInsts, idx, st)

\* An index operand that resolves to slot i.
ResolvesTo(idx, st, i) == StoreIsExact(ProbeInsts, idx, st) /\ StoreSlotOf(ProbeInsts, idx, st) = i

\* C3: after a store at a non-exact index, the load of any index contains
\* what the load of that index returned before the store.
C3_NonConstantWriteSound ==
    aphase = "loaded" /\ NonExact(aidx, ast) => RLeq(abefore, aafter)

\* C8: a store of v at constant index i followed by a load of i returns v;
\* a load of another index with no slot returns the default, unchanged; the
\* default and the other slots are as before the store.
C8_StoreLoadRoundTrip ==
    aphase = "loaded" /\ IsConstantInt(aidx) =>
        /\ ResolvesTo(alidx, ast, aidx.n) => aafter = aval
        /\ (\A j \in DOMAIN aarr.elem_map \cup {aidx.n} : ~ResolvesTo(alidx, ast, j)) => aafter = aarr.default_r
        /\ aarr2.default_r = aarr.default_r
        /\ DOMAIN aarr2.elem_map = DOMAIN aarr.elem_map \cup {aidx.n}
        /\ \A j \in DOMAIN aarr.elem_map \ {aidx.n} : aarr2.elem_map[j] = aarr.elem_map[j]

C8_Witness ==
    /\ aphase = "loaded" /\ IsConstantInt(aidx) /\ alidx = aidx /\ aafter = aval
    /\ Has(aarr.elem_map, aidx.n) /\ aarr.elem_map[aidx.n] # aval /\ aarr.default_r # aval

\* Two states are the same iff both are unreachable, or both are reachable
\* with the same scalar map and the same array stores.
SameState(s1, s2) ==
    \/ ~s1.reachable /\ ~s2.reachable
    \/ /\ s1.reachable /\ s2.reachable
       /\ s1.val_ranges = s2.val_ranges
       /\ s1.arr_states = s2.arr_states

\* C7: operator!= reports two states as equal iff they are the same state.
C7_StateEqualityExact == ephase = "compared" => (~eres <=> SameState(ea, eb))

\* Whether the signed comparison x pred y is true.
Holds(pred, x, y) ==
    CASE pred = "sgt" -> x > y [] pred = "sge" -> x >= y
      [] pred = "slt" -> x < y [] pred = "sle" -> x <= y
      [] pred = "eq" -> x = y [] OTHER -> x # y

\* The comparison "x p k" that is true exactly on the given edge of case c.
EdgePred(c, taken) ==
    CHOOSE p \in SignedPreds :
        \A x \in -1..1, k \in -1..1 :
            Holds(p, x, k) <=> (taken <=> IF c.swapped THEN Holds(c.pred, k, x) ELSE Holds(c.pred, x, k))

\* filter(pred, k) as the specification states it.
SpecFilter(pred, k, v) ==
    CASE pred = "sgt" -> IF k = INT_MAX THEN r_bot ELSE range(k + 1, INT_MAX)
      [] pred = "sge" -> range(k, INT_MAX)
      [] pred = "slt" -> IF k = INT_MIN THEN r_bot ELSE range(INT_MIN, k - 1)
      [] pred = "sle" -> range(INT_MIN, k)
      [] pred = "eq" -> range(k, k)
      [] OTHER -> IF v = range(k, k) THEN r_bot ELSE r_top

\* The meet of two intervals: the interval of the common members.
Meet(r1, r2) ==
    LET S == Gamma(r1) \cap Gamma(r2)
    IN IF S = {} THEN r_bot
       ELSE range(CHOOSE x \in S : \A y \in S : x <= y, CHOOSE x \in S : \A y \in S : x >= y)

\* C11: on the taken edge of a branch on "x pred k" (either operand order)
\* x becomes meet(v, filter(pred, k)), on the other edge
\* meet(v, filter(inverse pred, k)); a Bottom result marks the edge state
\* unreachable, and every other tracked value is unchanged.
C11_BranchRefinement ==
    bphase \in {"taken", "nottaken"} =>
        LET x == BrVar(bcase)
            expected == Meet(bcase.v, SpecFilter(EdgePred(bcase, bphase = "taken"), bcase.k, bcase.v))
        IN /\ DOMAIN bres.val_ranges = {x, Reg(4)}
           /\ bres.val_ranges[x] = expected
           /\ bres.reachable <=> expected # r_bot
           /\ bres.val_ranges[Reg(4)] = range(1, 2)
           /\ bres.arr_states = EmptyMap

C11_Witness ==
    /\ bphase = "nottaken" /\ bcase.pred = "slt" /\ ~bcase.swapped /\ bcase.kind = "load"
    /\ bcase.k = 3 /\ bcase.v = range(0, 5)
    /\ bres.val_ranges[Reg(1)] = range(3, 5) /\ bres.reachable

\* Saturation of a mathematical integer to the machine range.
Sat(x) == IF x > INT_MAX THEN INT_MAX ELSE IF x < INT_MIN THEN INT_MIN ELSE x

WellFormed(r) == r = r_bot \/ (get_low(r) <= get_high(r) /\ get_low(r) \in Ints /\ get_high(r) \in Ints)

\* C9: the saturated sum, difference and product of any members of two
\* non-Bottom intervals lie in add, sub, mul of the intervals; a Bottom
\* operand gives Bottom; no result has lo > hi.
C9_ArithmeticSound ==
    rop \in {"add", "sub", "mul"} =>
        IF ra = r_bot \/ rb = r_bot THEN rres = r_bot
        ELSE /\ rres # r_bot /\ WellFormed(rres)
             /\ \A x \in Gamma(ra), y \in Gamma(rb) :
                   Sat(CASE rop = "add" -> x + y [] rop = "sub" -> x - y [] OTHER -> x * y) \in Gamma(rres)

C9_Witness == rop = "add" /\ ra = range(INT_MAX - 1, INT_MAX) /\ rb = range(1, 1) /\ rres = range(INT_MAX, INT_MAX)

\* C10: join and intersect are commutative, associative and monotone in
\* each argument; intersect(a,a) = a, join(a,Bottom) = a and
\* intersect(a,Bottom) = Bottom.
C10_LatticeLaws ==
    /\ rop = "join" =>
          /\ rres = join(rb, ra)
          /\ \A c \in Ranges :
                /\ join(rres, c) = join(ra, join(rb, c))
                /\ RLeq(ra, c) => RLeq(rres, join(c, rb))
                /\ RLeq(rb, c) => RLeq(rres, join(ra, c))
          /\ rb = r_bot => rres = ra
    /\ rop = "intersect" =>
          /\ rres = intersect(rb, ra)
          /\ \A c \in Ranges :
                /\ intersect(rres, c) = intersect(ra, intersect(rb, c))
                /\ RLeq(ra, c) => RLeq(rres, intersect(c, rb))
                /\ RLeq(rb, c) => RLeq(rres, intersect(ra, c))
          /\ ra = rb => rres = ra
          /\ rb = r_bot => rres = r_bot

C10_Witness == rop = "join" /\ ra = range(0, 1) /\ rb = range(-2, 0) /\ rres = range(-2, 1)

\* Whether the edge from p to b leaves a conditional branch on "x pred k"
\* (either operand order) for which x, tracked with interval v at the end
\* of p, has meet(v, filter) = Bottom on that edge.
EdgeBottom(p, b) ==
    LET br == Terminator(F0, p)
        st == StateAt(out_state, p)
    IN /\ br.op = "condbr"
       /\ IsOp(F0.insts, br.a, {"icmp"})
       /\ LET cmp == F0.insts[br.a.n]
              swapped == IsConstantInt(cmp.a)
              x == IF swapped THEN cmp.b ELSE cmp.a
              k == IF swapped THEN cmp.a ELSE cmp.b
              var == IF IsLoadInst(F0.insts, x) THEN F0.insts[x.n].a ELSE x
          IN /\ IsConstantInt(k)
             /\ cmp.pred \in SignedPreds
             /\ Has(st.val_ranges, var)
             /\ Meet(st.val_ranges[var],
                     SpecFilter(EdgePred([pred |-> cmp.pred, swapped |-> swapped], b = br.targets[1]),
                                k.n, st.val_ranges[var])) = r_bot

\* An access in a block other than the entry that is reached only through
\* edges whose refinement yields Bottom.
DeadAccess(id) ==
    LET b == BlockOf(F0, id)
        preds == predecessors(F0, b)
    IN /\ b # 1
       /\ \A i \in 1..Len(preds) : StateAt(out_state, preds[i]).reachable => EdgeBottom(preds[i], b)

\* C12: an access reached only through branch edges refined to Bottom has
\* an unreachable solved in-state, is reported skipped-unreachable and gets
\* no guard: its block is as it was.
C12_DeadCodeSkipped ==
    pc = "ret" /\ F0.name = "test" =>
        \A id \in Accesses :
            DeadAccess(id) =>
                /\ ~StateAt(in_state, BlockOf(F0, id)).reachable
                /\ Has(outcome, id) /\ outcome[id] = "unreachable"
                /\ F.blocks[BlockOf(F0, id)] = F0.blocks[BlockOf(F0, id)]

C12_Witness ==
    /\ pc = "ret" /\ F0.src = <<"dead branch">> /\ DeadAccess(6)
    /\ StateAt(in_state, 2).reachable /\ outcome[6] = "unreachable" /\ F = F0

\* C13: when run_pass returns, every indexed access of the function has
\* exactly one of the outcomes inserted, skipped-safe, skipped-unreachable
\* (an access whose index is Bottom counts as skipped-unreachable).
C13_OneOutcomePerAccess ==
    pc = "ret" /\ F0.name = "test" =>
        \A id \in DOMAIN F0.insts :
            F0.insts[id].op = "gep" =>
                Has(outcome, id) /\ outcome[id] \in {"inserted", "safe", "unreachable", "dead"}

\* C14: run_pass reports a mutated CFG iff at least one guard was inserted,
\* and then the CFG was mutated; when every access is skipped the function
\* is exactly as it was.
C14_ModifiedIffGuardInserted ==
    pc = "ret" /\ F0.name = "test" =>
        /\ modified <=> \E id \in DOMAIN outcome : outcome[id] = "inserted"
        /\ modified => F # F0
        /\ ~modified => F = F0

C14_Witness ==
    /\ pc = "ret" /\ modified /\ F # F0
    /\ \E id \in DOMAIN outcome : outcome[id] = "inserted"
    /\ \E id \in DOMAIN outcome : outcome[id] # "inserted"

\* The guard of access id in the rewritten function: the block the access
\* was in keeps what stood before the access and ends in a branch on
\* (idx >= 0) and (idx < size); its first target holds the access and all
\* that followed it, its second only returns -1; no other block holds the
\* access or branches to it.
GuardAt(id) ==
    LET b0 == BlockOf(F0, id)
        pos == PosOf(F0, id)
        old == F0.blocks[b0]
        br == Terminator(F, b0)
        idx == GepIdx(F0.insts, Reg(id))
    IN /\ br.op = "condbr"
       /\ IsOp(F.insts, br.a, {"and"})
       /\ F.insts[F.insts[br.a.n].a.n] = ICmp("sge", idx, CInt(0))
       /\ F.insts[F.insts[br.a.n].b.n] = ICmp("slt", idx, CInt(ArraySize(F0, id)))
       /\ SubSeq(F.blocks[b0], 1, pos - 1) = SubSeq(old, 1, pos - 1)
       /\ Len(F.blocks[b0]) = pos + 3
       /\ F.blocks[br.targets[1]] = SubSeq(old, pos, Len(old))
       /\ Len(F.blocks[br.targets[2]]) = 1
       /\ F.insts[F.blocks[br.targets[2]][1]] = Ret(CInt(-1))
       /\ Cardinality({b \in BlockIds(F) : \E i \in 1..Len(F.blocks[b]) : F.blocks[b][i] = id}) = 1
       /\ Cardinality({b \in BlockIds(F) : br.targets[1] \in SuccSet(F, b)}) = 1

\* C15: every inserted guard has the shape GuardAt, two blocks are added
\* per guard, and a run of the rewritten function that stands at a guarded
\* access has its index within [0, size-1].
C15_GuardSemantics ==
    /\ pc = "ret" /\ F0.name = "test" =>
          /\ \A id \in DOMAIN outcome : outcome[id] = "inserted" => GuardAt(id)
          /\ Len(F.blocks) = Len(F0.blocks) + 2 * Cardinality({id \in DOMAIN outcome : outcome[id] = "inserted"})
    /\ xstatus = "run" /\ xrew /\ XIns.op = "gep" /\ Guarded(XId) =>
          XVal(GepIdx(F.insts, Reg(XId))) \in 0..(ArraySize(F0, XId) - 1)

\* A run of the rewritten function that ended in the trap block of a guard.
C15_Witness ==
    /\ xstatus = "ret" /\ xrew /\ modified
    /\ XId > Len(F0.insts) /\ xenv[XId] = -1
    /\ \E id \in DOMAIN outcome : outcome[id] = "inserted" /\ Terminator(F, BlockOf(F0, id)).targets[2] = xblk

\* The base objects of the pointer-typed arguments of the call of case c.
ClobberedBases(c) ==
    {IF a = Reg(3) THEN Reg(1) ELSE a : a \in {c.args[i] : i \in 1..Len(c.args)} \ {Arg(1)}}

\* C16: after the transfer of a call, direct or indirect, the tracked array
\* store of every pointer argument's base is default = Top with no slots,
\* the scalar interval of any other pointer argument's base is Top, the
\* call's result is Top, and nothing else has changed.
C16_CallClobbers ==
    cphase = "done" =>
        LET before == CallState(ccase)
            bases == ClobberedBases(ccase)
        IN /\ cres.reachable
           /\ cres.val_ranges[Reg(4)] = r_top
           /\ \A b \in bases :
                 IF b = Reg(1) THEN cres.arr_states[b] = arr_state(r_top, EmptyMap)
                 ELSE Has(cres.val_ranges, b) /\ cres.val_ranges[b] = r_top
           /\ Reg(1) \notin bases => cres.arr_states = before.arr_states
           /\ \A v \in DOMAIN before.val_ranges \ bases : cres.val_ranges[v] = before.val_ranges[v]

\* C17: the function is rewritten only in the instrumentation phase with
\* the worklist empty, and in-states and out-states change only in the
\* fixpoint phase, while the function is still as it was handed over.
C17_PhaseOrdering ==
    [][/\ F' # F => pc = "instr" /\ wk = <<>> /\ wk' = <<>>
       /\ in_state' # in_state \/ out_state' # out_state => pc = "fix" /\ F = F0 /\ F' = F0]_vars

\* A guard has been inserted and a further access is still to be visited.
C17_Witness == pc = "instr" /\ F # F0 /\ wk = <<>> /\ gi <= Len(geps) /\ in_state # EmptyMap

\* C18: across a back-edge, a value tracked on both sides with a non-Bottom
\* previous interval gets lower bound MIN if the new lower bound is below
\* the old one, else the new lower bound, and upper bound MAX if the new
\* upper bound is above the old one, else the new upper bound; any other
\* value, and every value on an edge that is not a back-edge, is unchanged.
C18_WideningRule ==
    wphase = "done" =>
        /\ wres.reachable = wcase.new.reachable
        /\ DOMAIN wres.val_ranges = DOMAIN wcase.new.val_ranges
        /\ \A v \in DOMAIN wcase.new.val_ranges :
              LET n == wcase.new.val_ranges[v]
              IN IF wcase.back /\ Has(wcase.old.val_ranges, v) /\ wcase.old.val_ranges[v] # r_bot
                 THEN LET o == wcase.old.val_ranges[v]
                      IN wres.val_ranges[v] =
                            range(IF get_low(n) < get_low(o) THEN INT_MIN ELSE get_low(n),
                                  IF get_high(n) > get_high(o) THEN INT_MAX ELSE get_high(n))
                 ELSE wres.val_ranges[v] = n
        /\ ~wcase.back => wres = wcase.new

C18_Witness ==
    /\ wphase = "done" /\ wcase.back
    /\ Has(wcase.old.val_ranges, Reg(1)) /\ wcase.old.val_ranges[Reg(1)] = range(0, 0)
    /\ Has(wcase.new.val_ranges, Reg(1)) /\ wcase.new.val_ranges[Reg(1)] = range(0, 1)
    /\ wres.val_ranges[Reg(1)] = range(0, INT_MAX)

\* C19: in the fixpoint of a function with one loop and one loop-carried
\* counter, widen_loop snaps no side of a value on a back-edge that it has
\* snapped before, and once a value has been snapped on the edge into a
\* block, a visit of that block leaves the value's in-state interval as it
\* was.
C19_OneWideningStep ==
    [][pc = "fix" /\ wk # <<>> /\ IsCountingLoop =>
          /\ Snaps(F, Head(wk), out_state, in_state, back_edges) \cap snapped = {}
          /\ \A t \in snapped :
                t[2] = Head(wk) /\ Has(StateAt(in_state', t[2]).val_ranges, t[3]) =>
                    StateAt(in_state', t[2]).val_ranges[t[3]] = StateAt(in_state, t[2]).val_ranges[t[3]]]_vars

\* C20: across a back-edge, an array store that differs in its default or
\* in any slot from the same array's store in the previous in-state becomes
\* default = Top with no slots; an identical store, a store not tracked
\* before, and every store on an edge that is not a back-edge, is unchanged.
C20_ArrayWidening ==
    wphase = "done" =>
        /\ DOMAIN wres.arr_states = DOMAIN wcase.new.arr_states
        /\ \A a \in DOMAIN wcase.new.arr_states :
              IF wcase.back /\ Has(wcase.old.arr_states, a) /\ wcase.old.arr_states[a] # wcase.new.arr_states[a]
              THEN wres.arr_states[a] = arr_state(r_top, EmptyMap)
              ELSE wres.arr_states[a] = wcase.new.arr_states[a]

\* Two stores that differ only in the interval of one slot.
C20_Witness ==
    /\ wphase = "done" /\ wcase.back
    /\ Has(wcase.old.arr_states, Reg(2)) /\ Has(wcase.new.arr_states, Reg(2))
    /\ wcase.old.arr_states[Reg(2)] = arr_state(range(0, 0), 0 :> range(0, 0))
    /\ wcase.new.arr_states[Reg(2)] = arr_state(range(0, 0), 0 :> range(5, 5))
    /\ wres.arr_states[Reg(2)] = arr_state(r_top, EmptyMap)

RECURSIVE PhiOverEdges(_, _, _, _)

\* The join, over the incoming edges inc[i..] of a phi of block BB whose
\* source block has a reachable out-state, of the incoming value evaluated
\* in the source's out-state refined by the branch condition of the edge.
PhiOverEdges(inc, i, BB, outs) ==
    IF i > Len(inc) THEN r_bot
    ELSE LET pred_bb == inc[i][2]
             rest == PhiOverEdges(inc, i + 1, BB, outs)
         IN IF StateAt(outs, pred_bb).reachable
            THEN join(get_range(F.insts, inc[i][1],
                                refine_br(F.insts, Terminator(F, pred_bb), BB, outs[pred_bb])),
                      rest)
            ELSE rest

\* C21: whenever the fixpoint visits a block, each phi of the block is bound
\* to the join, over the incoming edges whose source block has a reachable
\* out-state, of the incoming value in that out-state refined by the branch
\* condition of the edge.
C21_PhiTransfer ==
    [][pc = "fix" /\ wk # <<>> =>
          LET BB == Head(wk)
          IN StateAt(out_state', BB).reachable =>
                \A i \in 1..Len(F.blocks[BB]) :
                    LET id == F.blocks[BB][i]
                    IN F.insts[id].op = "phi" =>
                          StateAt(out_state', BB).val_ranges[Reg(id)]
                              = PhiOverEdges(F.insts[id].inc, 1, BB, out_state)]_vars

\* Every interval a block state holds: its scalar entries, and the default
\* and the slots of its array stores.
IntervalsOf(st) ==
    {st.val_ranges[v] : v \in DOMAIN st.val_ranges}
    \cup {st.arr_states[al].default_r : al \in DOMAIN st.arr_states}
    \cup UNION {{st.arr_states[al].elem_map[i] : i \in DOMAIN st.arr_states[al].elem_map} : al \in DOMAIN st.arr_states}

\* C22: every interval of every in-state and out-state the fixpoint stores
\* is Bottom, or has lo <= hi with both bounds within [MIN, MAX].
C22_IntervalsWellFormed ==
    /\ \A b \in DOMAIN in_state : \A r \in IntervalsOf(in_state[b]) : WellFormed(r)
    /\ \A b \in DOMAIN out_state : \A r \in IntervalsOf(out_state[b]) : WellFormed(r)

\* The fixpoint of a loop has ended with a widened bound, a refined bound
\* and an array default in its states.
C22_Witness ==
    /\ pc = "instr" /\ IsCountingLoop /\ snapped # {}
    /\ \E b \in DOMAIN in_state :
          /\ \E r \in IntervalsOf(in_state[b]) : r # r_top /\ r # r_bot /\ get_high(r) = INT_MAX
          /\ \E al \in DOMAIN in_state[b].arr_states : in_state[b].arr_states[al].default_r # r_bot
    /\ \E b \in DOMAIN in_state : \E r \in IntervalsOf(in_state[b]) :
          r # r_bot /\ get_low(r) > INT_MIN /\ get_high(r) < INT_MAX /\ get_low(r) < get_high(r)

\* The values of the function: its instructions, its arguments, a constant
\* and a constant expression.
ValuesOf(Fn) ==
    {Reg(i) : i \in DOMAIN Fn.insts} \cup {Arg(i) : i \in 1..Fn.nargs} \cup {CInt(0), CExpr}

\* An unreachable state with empty maps, against which every value
\* evaluates to Bottom.
EmptyUnreachable(st) ==
    /\ st.val_ranges = EmptyMap
    /\ st.arr_states = EmptyMap
    /\ \A v \in ValuesOf(F) : get_range(F.insts, v, st) = r_bot

\* C23: every in-state and out-state stored with reachable = false has an
\* empty scalar map and an empty array map, and every value evaluates to
\* Bottom against it.
C23_UnreachableStatesEmpty ==
    /\ \A b \in DOMAIN in_state : ~in_state[b].reachable => EmptyUnreachable(in_state[b])
    /\ \A b \in DOMAIN out_state : ~out_state[b].reachable => EmptyUnreachable(out_state[b])

\* A block behind a branch edge refined to Bottom, whose predecessor is
\* reachable with tracked values.
C23_Witness ==
    /\ pc = "ret" /\ F0.src = <<"dead branch">>
    /\ ~in_state[3].reachable /\ ~out_state[3].reachable
    /\ out_state[2].reachable /\ out_state[2].val_ranges # EmptyMap /\ out_state[2].arr_states # EmptyMap

\* The operands of the array join of a case.
JoinArrA == jcase.a.arr_states[Reg(1)]

JoinArrB == jcase.b.arr_states[Reg(1)]

\* The load of constant index i from an array store.
LoadConst(arr, i) == load_elem(<<>>, arr, CInt(i), NewState)

\* C24: join_arr(s1, s2) has default join(s1.default, s2.default); an index
\* tracked on one side only gets the join of its value with the other
\* side's default, an index tracked on both sides the join of the two
\* values; the load of every constant index from the result contains its
\* load from s1 and from s2; and join_arr(s2, s1) is the same store.
C24_ArrayJoin ==
    jphase = "arr" =>
        LET s1 == JoinArrA
            s2 == JoinArrB
        IN /\ jarr.default_r = join(s1.default_r, s2.default_r)
           /\ DOMAIN jarr.elem_map = DOMAIN s1.elem_map \cup DOMAIN s2.elem_map
           /\ \A i \in DOMAIN s1.elem_map \ DOMAIN s2.elem_map :
                 jarr.elem_map[i] = join(s1.elem_map[i], s2.default_r)
           /\ \A i \in DOMAIN s2.elem_map \ DOMAIN s1.elem_map :
                 jarr.elem_map[i] = join(s2.elem_map[i], s1.default_r)
           /\ \A i \in DOMAIN s1.elem_map \cap DOMAIN s2.elem_map :
                 jarr.elem_map[i] = join(s1.elem_map[i], s2.elem_map[i])
           /\ \A i \in 0..2 :
                 /\ RLeq(LoadConst(s1, i), LoadConst(jarr, i))
                 /\ RLeq(LoadConst(s2, i), LoadConst(jarr, i))
           /\ jarr = join_arr(s2, s1)

\* Slot 0 tracked on the left only, slot 1 on both sides.
C24_Witness ==
    /\ jphase = "arr"
    /\ JoinArrA = arr_state(range(0, 0), (0 :> range(5, 5)) @@ (1 :> range(0, 0)))
    /\ JoinArrB = arr_state(range(2, 5), 1 :> range(5, 5))
    /\ jarr = arr_state(range(0, 5), (0 :> range(2, 5)) @@ (1 :> range(0, 5)))

\* The evaluation of a value in a state: get_range, which gives Top for a
\* value the state does not track.
EvalIn(v, st) == get_range(ProbeInsts, v, st)

\* C29: after a.join_state(b) with b reachable, every value evaluates in the
\* result to an interval that contains its evaluation in a (when a was
\* reachable) and its evaluation in b; every load from an array store of
\* the result contains the same load from the operand's store of that
\* array; and join_state returns true exactly when a has changed.
C29_StateJoinUpperBound ==
    jphase = "state" /\ jcase.b.reachable =>
        /\ \A v \in {Reg(2), Arg(1)} :
              /\ jcase.a.reachable => RLeq(EvalIn(v, jcase.a), EvalIn(v, jres))
              /\ RLeq(EvalIn(v, jcase.b), EvalIn(v, jres))
        /\ \A op \in {jcase.a, jcase.b} : \A al \in DOMAIN op.arr_states :
              op.reachable =>
                 /\ Has(jres.arr_states, al)
                 /\ \A i \in 0..2 : RLeq(LoadConst(op.arr_states[al], i), LoadConst(jres.arr_states[al], i))
        /\ jchanged <=> jres # jcase.a

\* C25: for every function handed to run_pass the worklist loop empties the
\* queue: while the queue is non-empty fewer than MaxVisits blocks have been
\* visited.
C25_GeneralTermination == pc = "fix" /\ wk # <<>> => visits < MaxVisits

\* The blocks in a queue.
Queued(q) == {q[i] : i \in 1..Len(q)}

\* C26: the queue initially holds every block once, in function order; at
\* every iteration boundary in_wk is the set of the queued blocks and no
\* block is queued twice; a visit of a block whose out-state differs from
\* its previous out-state leaves every successor of the block queued, and a
\* visit that leaves the out-state as it was pushes nothing.
C26_WorklistDiscipline ==
    [][/\ pc = "start" /\ pc' = "fix" =>
             Len(wk') = Len(F.blocks) /\ \A b \in BlockIds(F) : wk'[b] = b
       /\ pc' = "fix" => in_wk' = Queued(wk') /\ Cardinality(Queued(wk')) = Len(wk')
       /\ pc = "fix" /\ wk # <<>> =>
             LET BB == Head(wk)
             IN IF SameState(StateAt(out_state, BB), StateAt(out_state', BB))
                THEN wk' = Tail(wk)
                ELSE /\ SuccSet(F, BB) \subseteq Queued(wk')
                     /\ SubSeq(wk', 1, Len(wk) - 1) = Tail(wk)]_vars

\* C27: when the worklist is empty, for every block the in-state recomputed
\* from the final out-states of its predecessors is the stored in-state,
\* and the transfer of the block's instructions from that in-state gives
\* the stored out-state, map for map.
C27_StableAtTermination ==
    pc = "fix" /\ wk = <<>> =>
        \A BB \in BlockIds(F) :
            LET new_in_state == NewInState(F, BB, out_state, in_state, back_edges)
            IN /\ new_in_state = StateAt(in_state, BB)
               /\ NewOutState(F, BB, new_in_state, out_state) = StateAt(out_state, BB)

\* C28: for a function whose name is not exactly test, run_pass visits no
\* block, stores no state, collects and guards no access, leaves the
\* function as it was and reports nothing modified, also when a run of the
\* function accesses the array out of bounds; a function named test is
\* analysed.
C28_OnlyTestIsAnalysed ==
    /\ F0.name # "test" =>
          /\ pc \in {"start", "ret"}
          /\ visits = 0 /\ wk = <<>> /\ in_wk = {} /\ back_edges = {}
          /\ in_state = EmptyMap /\ out_state = EmptyMap
          /\ geps = <<>> /\ outcome = EmptyMap
          /\ F = F0 /\ ~modified
    /\ F0.name = "test" /\ pc = "ret" => visits >= Len(F0.blocks)

\* run_pass has returned for the function named test2, and a run of the
\* function has then left the array.
C28_Witness ==
    /\ pc = "ret" /\ F0.name = "test2" /\ F = F0 /\ ~modified
    /\ xstatus = "ub" /\ XIns.op = "store"

\* What one more application of every constraint would add is already
\* there: the map is a solution of the copy, store and load constraints.
PtsSolved(c, pts) ==
    /\ \A i \in DOMAIN c.copy :
          getPtsToSet(c.copy[i][2], pts) \subseteq pts[c.copy[i][1]]
    /\ \A i \in DOMAIN c.store :
          \A m \in getPtsToSet(c.store[i][1], pts) \cap c.ptrTyped :
             getPtsToSet(c.store[i][2], pts) \subseteq pts[m]
    /\ \A i \in DOMAIN c.load :
          \A m \in getPtsToSet(c.load[i][2], pts) :
             pts[m] \subseteq pts[c.load[i][1]]

\* The most iterations the loop can take: every iteration but the last
\* inserts a target into one of the sets, and there are finitely many
\* sets with finitely many possible targets.
PtsCapacity(c) == (Cardinality(memObj) + Len(c.insts)) * Cardinality(memObj) + 1

\* C30: the points-to fixpoint of PointerAnalysis is monotone (no
\* iteration removes a key or a target from pointsTo), it terminates (the
\* number of iterations is bounded by the capacity of the sets), and when
\* the loop is left the map is closed under every copy, store and load
\* constraint.
C30_PointsToFixpoint ==
    [][/\ \A k \in DOMAIN pointsTo : k \in DOMAIN pointsTo' /\ pointsTo[k] \subseteq pointsTo'[k]
       /\ prounds' <= PtsCapacity(pcase)
       /\ ppc' = "done" => PtsSolved(pcase, pointsTo')]_vars

\* The loop has been left after three iterations, the value of a gep
\* having received in the second one what the load it copies from
\* received in the first.
C30_Witness ==
    /\ ppc = "done"
    /\ prounds = 3
    /\ \E i \in DOMAIN pcase.insts :
          /\ pcase.insts[i].op = "gep"
          /\ pcase.insts[i].a \in DOMAIN pointsTo \ memObj
          /\ pointsTo[Tmp(i)] # {}
          /\ pointsTo[Tmp(i)] # ScannedPointsTo(pcase.insts)[Tmp(i)]

\* Lattice order on array stores and block states: every load from the
\* smaller store is contained in the same load from the larger one.
ArrLoad(arr, i) == IF Has(arr.elem_map, i) THEN arr.elem_map[i] ELSE arr.default_r

ArrLeq(a1, a2) ==
    /\ RLeq(a1.default_r, a2.default_r)
    /\ \A i \in DOMAIN a1.elem_map \cup DOMAIN a2.elem_map : RLeq(ArrLoad(a1, i), ArrLoad(a2, i))

StateLeq(s1, s2) ==
    \/ ~s1.reachable
    \/ /\ s2.reachable
       /\ \A v \in DOMAIN s1.val_ranges \cap DOMAIN s2.val_ranges : RLeq(s1.val_ranges[v], s2.val_ranges[v])
       /\ \A al \in DOMAIN s1.arr_states \cap DOMAIN s2.arr_states : ArrLeq(s1.arr_states[al], s2.arr_states[al])

\* C6: on every visit of a block during the fixpoint, its new out-state is
\* greater than or equal to its previous out-state.
C6_OutStateGrows ==
    [][pc = "fix" /\ wk # <<>> => StateLeq(StateAt(out_state, Head(wk)), StateAt(out_state', Head(wk)))]_vars

====
